---- MODULE Spec2Model ----
(***************************************************************************)
(* passlib.crypto.digest: the digest resolver (lookup_hash), its name      *)
(* normalisation (_get_hash_aliases), constructor lookup (_get_hash_const) *)
(* and the HashInfo record, as a state machine over the module-level       *)
(* cache _hash_info_cache.                                                 *)
(*                                                                         *)
(* A Python str is a sequence of one-character strings.  Python's None is  *)
(* the empty sequence where a str is expected (both are falsy), and the    *)
(* record NoConst where a constructor is expected.  The interpreter runs   *)
(* without -O, so assert statements execute.                               *)
(***************************************************************************)
EXTENDS Integers, Sequences, FiniteSets, TLC, Bags

(***************************************************************************)
(* Characters and the str methods the resolver uses.                       *)
(***************************************************************************)
LowerChars ==
    << "a","b","c","d","e","f","g","h","i","j","k","l","m",
       "n","o","p","q","r","s","t","u","v","w","x","y","z" >>

UpperChars ==
    << "A","B","C","D","E","F","G","H","I","J","K","L","M",
       "N","O","P","Q","R","S","T","U","V","W","X","Y","Z" >>

Letters == { LowerChars[i] : i \in DOMAIN LowerChars }

Uppers == { UpperChars[i] : i \in DOMAIN UpperChars }

Digits == { "0","1","2","3","4","5","6","7","8","9" }

Whitespace == { " ", "\t" }

Chars == Letters \cup Uppers \cup Digits \cup Whitespace \cup { "-", "_", "/" }

\* str.lower(), one character
LowerOf ==
    [ c \in Chars |->
        IF c \in Uppers
        THEN LowerChars[CHOOSE i \in DOMAIN UpperChars : UpperChars[i] = c]
        ELSE c ]

\* str.upper(), one character
UpperOf ==
    [ c \in Chars |->
        IF c \in Letters
        THEN UpperChars[CHOOSE i \in DOMAIN LowerChars : LowerChars[i] = c]
        ELSE c ]

\* a str built character by character, as a sequence
AsStr(f) == f \o << >>

\* name.lower()
str_lower(s) == AsStr([ i \in 1..Len(s) |-> LowerOf[s[i]] ])

\* name.strip(): drop leading and trailing whitespace
str_strip(s) ==
    LET keep == { i \in 1..Len(s) : s[i] \notin Whitespace }
    IN  IF keep = {} THEN << >>
        ELSE LET lo == CHOOSE i \in keep : \A j \in keep : i <= j
                 hi == CHOOSE i \in keep : \A j \in keep : j <= i
             IN  SubSeq(s, lo, hi)

\* a substitution that leaves "/" alone
sub_separators_without_slash(s) ==
    AsStr([ i \in 1..Len(s) |-> IF s[i] \in { "_", " " } THEN "-" ELSE s[i] ])

\* re.sub("[_ /]", "-", s)
sub_separators(s) ==
    AsStr([ i \in 1..Len(s) |-> IF s[i] \in { "_", " ", "/" } THEN "-" ELSE s[i] ])

\* s.replace("-", "_")
replace_hyphens(s) ==
    AsStr([ i \in 1..Len(s) |-> IF s[i] = "-" THEN "_" ELSE s[i] ])

startswith(s, p) == Len(s) >= Len(p) /\ SubSeq(s, 1, Len(p)) = p

endswith(s, p) ==
    Len(s) >= Len(p) /\ SubSeq(s, Len(s) - Len(p) + 1, Len(s)) = p

(***************************************************************************)
(* The static table of known hash names.                                   *)
(***************************************************************************)
s_md2 == << "m","d","2" >>

s_md5 == << "m","d","5" >>

s_md4 == << "m","d","4" >>

s_sha == << "s","h","a" >>

s_sha1 == << "s","h","a","1" >>

s_ripemd == << "r","i","p","e","m","d" >>

s_ripemd160 == s_ripemd \o << "1","6","0" >>

s_scram_ == << "s","c","r","a","m","-" >>

s_plus == << "-","p","l","u","s" >>

\* "sha" + digits, "sha-" + digits, "sha2-" + digits
sha_(size) == s_sha \o size

sha_h(size) == s_sha \o << "-" >> \o size

sha2_h(size) == s_sha \o << "2", "-" >> \o size

_known_hash_names ==
    << << s_md2, s_md2 >>,
       << s_md5, s_md5 >>,
       << s_sha1, sha_h(<< "1" >>) >>,
       << sha_(<< "2","2","4" >>), sha_h(<< "2","2","4" >>), sha2_h(<< "2","2","4" >>) >>,
       << sha_(<< "2","5","6" >>), sha_h(<< "2","5","6" >>), sha2_h(<< "2","5","6" >>) >>,
       << sha_(<< "3","8","4" >>), sha_h(<< "3","8","4" >>), sha2_h(<< "3","8","4" >>) >>,
       << sha_(<< "5","1","2" >>), sha_h(<< "5","1","2" >>), sha2_h(<< "5","1","2" >>) >>,
       << s_md4, s_md4 >>,
       << s_sha, sha_h(<< "0" >>), sha_(<< "0" >>) >>,
       << s_ripemd, s_ripemd >>,
       << s_ripemd160, s_ripemd \o << "-","1","6","0" >> >> >>

\* elements of a row
RowNames(row) == { row[i] : i \in DOMAIN row }

\* the first of the rows numbered in hits, or None
first_row(hits) ==
    IF hits = {} THEN << >>
    ELSE _known_hash_names[CHOOSE r \in hits : \A q \in hits : r <= q]

\* check_table(name): the first row holding name, or None
check_table(name) ==
    first_row({ r \in DOMAIN _known_hash_names :
                  name \in RowNames(_known_hash_names[r]) })

(***************************************************************************)
(* re.match(r"(?i)^(?P<name>[a-z]+)-?(?P<rev>\d)?-?(?P<size>\d{3,4})?$")   *)
(* The letters are matched greedily and never given back (what follows     *)
(* them cannot match a letter).  The four optional parts are tried in the  *)
(* regex engine's backtracking order: each part taken before it is         *)
(* skipped, four size digits before three, the earlier part varying        *)
(* slowest.                                                                *)
(***************************************************************************)
IsAlpha(c) == c \in Letters \cup Uppers

\* length of the longest prefix of letters
alpha_prefix(s) ==
    IF \A i \in 1..Len(s) : IsAlpha(s[i]) THEN Len(s)
    ELSE (CHOOSE i \in 1..Len(s) :
            /\ ~IsAlpha(s[i])
            /\ \A j \in 1..(i - 1) : IsAlpha(s[j])) - 1

\* alternatives of a pattern that tries the size before the revision digit
re_alternatives_size_first ==
    [ k \in 0..23 |->
        << 1 - (k \div 12), (k \div 6) % 2, 1 - ((k \div 3) % 2),
           IF k % 3 = 0 THEN 4 ELSE IF k % 3 = 1 THEN 3 ELSE 0 >> ]

\* <<hyphen1, rev, hyphen2, size>> lengths, in backtracking order
re_alternatives ==
    [ k \in 0..23 |->
        << 1 - (k \div 12), 1 - ((k \div 6) % 2), 1 - ((k \div 3) % 2),
           IF k % 3 = 0 THEN 4 ELSE IF k % 3 = 1 THEN 3 ELSE 0 >> ]

\* does the tail r consist of exactly the parts of alternative a
re_tail_matches(r, a) ==
    LET p1 == a[1]
        p2 == p1 + a[2]
        p3 == p2 + a[3]
        p4 == p3 + a[4]
    IN  /\ Len(r) = p4
        /\ \A i \in 1..p1 : r[i] = "-"
        /\ \A i \in (p1 + 1)..p2 : r[i] \in Digits
        /\ \A i \in (p2 + 1)..p3 : r[i] = "-"
        /\ \A i \in (p3 + 1)..p4 : r[i] \in Digits

\* the groups of s matched with n letters, tail r and alternative a
re_groups(s, n, r, a) ==
    [ ok |-> TRUE,
      name |-> SubSeq(s, 1, n),
      rev |-> SubSeq(r, a[1] + 1, a[1] + a[2]),
      size |-> SubSeq(r, a[1] + a[2] + a[3] + 1, Len(r)) ]

\* the first alternative among those that match, if any
re_first(s, n, r, matching) ==
    IF n = 0 \/ matching = {}
    THEN [ ok |-> FALSE, name |-> << >>, rev |-> << >>, size |-> << >> ]
    ELSE re_groups(s, n, r,
                   re_alternatives[CHOOSE k \in matching : \A q \in matching : k <= q])

\* the match of s whose letters are its first n characters and r the rest
re_match_tail(s, n, r) ==
    re_first(s, n, r,
             { k \in DOMAIN re_alternatives : re_tail_matches(r, re_alternatives[k]) })

re_match_letters(s, n) == re_match_tail(s, n, SubSeq(s, n + 1, Len(s)))

\* the match object: [ok, name, rev, size]; a group that took no part is None
re_match(s) == re_match_letters(s, alpha_prefix(s))

(***************************************************************************)
(* _get_hash_aliases(name): normalise a hash name to a row                 *)
(* (hashlib_name, iana_name, aliases...).                                  *)
(***************************************************************************)
\* lines 113-114: ``if name.endswith("-plus"): name = name[:-5]``
strip_plus(name) ==
    IF endswith(name, s_plus) THEN SubSeq(name, 1, Len(name) - 5) ELSE name

\* lines 111-114: ``if name.startswith("scram-"): name = name[6:] ...``
strip_scram(name) ==
    IF startswith(name, s_scram_) THEN strip_plus(SubSeq(name, 7, Len(name)))
    ELSE name

\* lines 107-114, the cleaned name: strip, lower, separators, the SCRAM
\* prefix and suffix
clean_name(name) == strip_scram(sub_separators(str_lower(str_strip(name))))

\* lines 139-146: the table row of the standard name, or the names built
aliases_rechecked(hashlib_name, iana_name, result) ==
    IF result # << >> THEN result ELSE << hashlib_name, iana_name >>

\* lines 130-138: the names built from the groups
aliases_built(iana0, rev, size) ==
    aliases_rechecked(
        IF size # << >>
        THEN (IF rev # << >> THEN iana0 \o << "_" >> ELSE iana0) \o size
        ELSE iana0,
        IF size # << >> THEN iana0 \o << "-" >> \o size ELSE iana0,
        check_table(IF size # << >> THEN iana0 \o << "-" >> \o size ELSE iana0))

\* lines 127-155: the pattern matched (m), or the fallback
aliases_matched(name, m) ==
    IF m.ok THEN aliases_built(m.name \o m.rev, m.rev, m.size)
    ELSE << replace_hyphens(name), name >>

\* lines 121-123: the table row of the cleaned name, if any
aliases_checked(name, result) ==
    IF result # << >> THEN result ELSE aliases_matched(name, re_match(name))

aliases_of_clean(name) == aliases_checked(name, check_table(name))

hash_aliases(orig) == aliases_of_clean(clean_name(orig))

(***************************************************************************)
(* The platform: the hashlib module the resolver runs against.  It is the  *)
(* one the module's imports describe: hashlib.pbkdf2_hmac exists, the      *)
(* guaranteed digests are attributes, hashlib.new() knows ripemd160 from   *)
(* the SSL library and does not know md2, md4, sha (SHA-0) or ripemd.      *)
(***************************************************************************)
s_sha224 == sha_(<< "2","2","4" >>)

s_sha256 == sha_(<< "2","5","6" >>)

s_sha384 == sha_(<< "3","8","4" >>)

s_sha512 == sha_(<< "5","1","2" >>)

s_new == << "n","e","w" >>

s_algorithms == << "a","l","g","o","r","i","t","h","m","s" >>

s_pbkdf2_hmac == << "p","b","k","d","f","2","_","h","m","a","c" >>

s_xyz == << "x","y","z" >>

s_bad == << "b","a","d" >>

s_wide == << "w","i","d","e" >>

s_narrow == << "n","a","r","r","o","w" >>

s_odd == << "o","d","d" >>

\* attributes of hashlib that are digest constructors
HashlibDigests == { s_md5, s_sha1, s_sha224, s_sha256, s_sha384, s_sha512 }

\* attributes of hashlib that are something else
HashlibOtherAttrs == { s_new, s_algorithms, s_pbkdf2_hmac }

\* names hashlib.new() accepts beyond the attributes
HashlibNewOnly == { s_ripemd160 }

\* a constructor object: where it comes from, its name there, and a serial
\* number telling apart the wrapper functions _get_hash_const creates
NoConst == [ src |-> "none", name |-> << >>, ser |-> 0 ]

HashlibAttr(name) == [ src |-> "hashlib", name |-> name, ser |-> 0 ]

NewWrapper(name, ser) == [ src |-> "new", name |-> name, ser |-> ser ]

Md4Builtin == [ src |-> "_md4", name |-> s_md4, ser |-> 0 ]

UserConst(tag) == [ src |-> "user", name |-> tag, ser |-> 0 ]

\* callables a caller brings along: a mock of sha256, two third-party
\* digests reporting the same name, and one whose digest() is too short
mock_sha256 == UserConst(<< "m","o","c","k" >>)

third_a == UserConst(<< "t","h","i","r","d","a" >>)

third_b == UserConst(<< "t","h","i","r","d","b" >>)

broken == UserConst(s_bad)

\* a digest whose output (64 octets) is longer than its block (16 octets)
wide == UserConst(s_wide)

\* a digest with a block of 8 octets
narrow == UserConst(s_narrow)

\* a digest of 10 octets
odd == UserConst(s_odd)

\* can the object be called without arguments to give a hash object
MakesHash(const) ==
    ~(const.src = "hashlib" /\ const.name \in HashlibOtherAttrs)

\* const().name
ConstName(const) ==
    IF const = mock_sha256 THEN s_sha256
    ELSE IF const \in { third_a, third_b } THEN s_xyz
    ELSE const.name

\* const().digest_size
ConstDigestSize(const) ==
    LET n == ConstName(const)
    IN  IF n \in { s_md5, s_md4, s_xyz, s_bad } THEN 16
        ELSE IF n \in { s_sha1, s_ripemd160 } THEN 20
        ELSE IF n = s_sha224 THEN 28
        ELSE IF n = s_sha256 THEN 32
        ELSE IF n = s_sha384 THEN 48
        ELSE IF n = s_odd THEN 10
        ELSE 64

\* len(const().digest())
ConstDigestLen(const) ==
    IF const = broken THEN ConstDigestSize(const) - 4 ELSE ConstDigestSize(const)

\* const().block_size
ConstBlockSize(const) ==
    IF ConstName(const) \in { s_sha384, s_sha512 } THEN 128
    ELSE IF ConstName(const) = s_wide THEN 16
    ELSE IF ConstName(const) = s_narrow THEN 8
    ELSE 64

(***************************************************************************)
(* _get_hash_const(name): hashlib attribute, else a fresh wrapper around   *)
(* hashlib.new, else the builtin md4, else None.  ser is the serial the    *)
(* wrapper gets when one is created.                                       *)
(***************************************************************************)
_get_hash_const(name, ser) ==
    IF /\ ~startswith(name, << "_" >>)
       /\ name \notin { s_new, s_algorithms }
       /\ name \in HashlibDigests \cup HashlibOtherAttrs
    THEN HashlibAttr(name)
    ELSE IF name \in HashlibDigests \cup HashlibNewOnly
    THEN NewWrapper(name, ser)
    ELSE IF name = s_md4
    THEN Md4Builtin
    ELSE NoConst

(***************************************************************************)
(* HashInfo.__init__(const, names): the record, or the exception raised.   *)
(***************************************************************************)
NoSize == 0 - 1

\* a constructor that takes the declared digest_size on trust
HashInfo_unchecked(const, names) ==
    [ exc |-> IF const = NoConst \/ MakesHash(const) THEN "none" ELSE "TypeError",
      info |-> [ name |-> names[1], iana_name |-> names[2],
                 aliases |-> SubSeq(names, 3, Len(names)), const |-> const,
                 digest_size |-> IF const = NoConst \/ ~MakesHash(const) THEN NoSize
                                 ELSE ConstDigestSize(const),
                 block_size |-> IF const = NoConst \/ ~MakesHash(const) THEN NoSize
                                ELSE ConstBlockSize(const) ] ]

HashInfo(const, names) ==
    LET base == [ name |-> names[1], iana_name |-> names[2],
                  aliases |-> SubSeq(names, 3, Len(names)), const |-> const,
                  digest_size |-> NoSize, block_size |-> NoSize ]
    IN  IF const = NoConst
        THEN [ exc |-> "none", info |-> base ]
        ELSE IF ~MakesHash(const)
        THEN [ exc |-> "TypeError", info |-> base ]
        ELSE IF ConstDigestLen(const) # ConstDigestSize(const)
        THEN [ exc |-> "RuntimeError", info |-> base ]
        ELSE [ exc |-> "none",
               info |-> [ base EXCEPT !.digest_size = ConstDigestSize(const),
                                      !.block_size = ConstBlockSize(const) ] ]

\* HashInfo._as_tuple
_as_tuple(info) == << info.const, info.digest_size, info.block_size >>

(***************************************************************************)
(* What callers pass to lookup_hash in the resolver's state machine.       *)
(***************************************************************************)
\* the names callers pass
NamePool ==
    { s_sha256,
      sha_h(<< "2","5","6" >>),
      << "S","H","A","2","_","2","5","6" >>,
      s_ripemd160,
      s_md2,
      s_xyz,
      << >>,
      s_pbkdf2_hmac }

\* the callables callers bring along
UserCallables == { HashlibAttr(s_sha256), mock_sha256, third_a, third_b, broken }

(***************************************************************************)
(* _get_hash_aliases as the resolver calls it.  The rows of the names the  *)
(* state machine meets are evaluated once and looked up afterwards; every  *)
(* other name is normalised on the spot.                                   *)
(***************************************************************************)
PoolNames == NamePool \cup { ConstName(c) : c \in UserCallables }

\* the pool's names, and the names they are normalised to
MetNames ==
    LET first == PoolNames \cup { hash_aliases(s)[1] : s \in PoolNames }
    IN  first \cup { hash_aliases(s)[1] : s \in first }

aliases_of_met == [ s \in MetNames |-> hash_aliases(s) ]

_get_hash_aliases(name) ==
    IF name \in MetNames THEN aliases_of_met[name] ELSE hash_aliases(name)

\* the first name of the row a name is normalised to
Canonical(s) == _get_hash_aliases(s)[1]

(***************************************************************************)
(* Values handed to lookup_hash as ``digest``, and the keys of the cache.  *)
(* A HashInfo is not hashable (it defines __eq__ through SequenceMixin).   *)
(***************************************************************************)
Str(s) == [ kind |-> "str", s |-> s, c |-> NoConst, id |-> 0, hashable |-> TRUE ]

Callable(c) == [ kind |-> "callable", s |-> << >>, c |-> c, id |-> 0, hashable |-> TRUE ]

InfoRef(i) == [ kind |-> "info", s |-> << >>, c |-> NoConst, id |-> i, hashable |-> FALSE ]

\* something that is no name, no HashInfo and not callable: 5, or [5]
Other(hashable) ==
    [ kind |-> "other", s |-> << >>, c |-> NoConst, id |-> 0, hashable |-> hashable ]

\* cache[key] = info
cache_put(c, key, info) ==
    [ k \in DOMAIN c \cup { key } |-> IF k = key THEN info ELSE c[k] ]

\* a cache that holds nothing
cache_lookup_missing(c, digest) ==
    IF ~digest.hashable THEN "TypeError" ELSE "KeyError"

\* ``cache[digest]``: "hit", or the exception it raises (TypeError: unhashable)
cache_lookup(c, digest) ==
    IF ~digest.hashable THEN "TypeError"
    ELSE IF digest \in DOMAIN c THEN "hit"
    ELSE "KeyError"

\* a handler for KeyError alone
caught_KeyError_only(e) == e = "KeyError"

\* ``except (KeyError, TypeError): pass``
caught(e) == e \in { "KeyError", "TypeError" }

\* a test that takes whatever is no name for a callable
is_callable_or_other(digest) == digest.kind \notin { "str", "info" }

\* ``callable(digest)``
is_callable(digest) == digest.kind = "callable"

\* the result of a call: the exception raised ("none": it returned), the
\* HashInfo returned (an index of the heap), and the cache and heap it leaves
Result(exc, info, c, h) == [ exc |-> exc, info |-> info, cache |-> c, heap |-> h ]

\* ``cache.get(name) in [None, info]``: identity, else HashInfo.__eq__, which
\* compares the _as_tuple() values
assert_free(c, h, key, info) ==
    \/ key \notin DOMAIN c
    \/ c[key] = info
    \/ _as_tuple(h[c[key]]) = _as_tuple(h[info])

\* ``for name in name_list: if name: assert ...; cache[name] = info`` from the
\* i-th name on: the exception raised and the cache left
RECURSIVE cache_names(_, _, _, _, _)
cache_names(c, h, name_list, i, info) ==
    IF i > Len(name_list) THEN [ exc |-> "none", cache |-> c ]
    ELSE IF name_list[i] = << >> THEN cache_names(c, h, name_list, i + 1, info)
    ELSE IF ~assert_free(c, h, Str(name_list[i]), info)
    THEN [ exc |-> "AssertionError", cache |-> c ]
    ELSE cache_names(cache_put(c, Str(name_list[i]), info), h, name_list, i + 1, info)

\* lines 300-307: the instance is on the heap (h2) and under its constructor
\* (c2); named is the outcome of caching it under its names
populated(h2, named) ==
    IF named.exc # "none" THEN Result(named.exc, 0, named.cache, h2)
    ELSE Result("none", Len(h2), named.cache, h2)

cache_new(c2, h2, name_list, cache_by_name) ==
    populated(h2, IF cache_by_name THEN cache_names(c2, h2, name_list, 1, Len(h2))
                  ELSE [ exc |-> "none", cache |-> c2 ])

\* an instance cached under its constructor before __init__ has checked it
created_cached_first(c, h, const, name_list, cache_by_name, made) ==
    IF made.exc # "none"
    THEN Result(made.exc, 0, cache_put(c, Callable(const), Len(h) + 1), Append(h, made.info))
    ELSE cache_new(cache_put(c, Callable(const), Len(h) + 1), Append(h, made.info),
                   name_list, cache_by_name)

\* lines 297-307 with the outcome of HashInfo(const, name_list)
created(c, h, const, name_list, cache_by_name, made) ==
    IF made.exc # "none" THEN Result(made.exc, 0, c, h)
    ELSE cache_new(cache_put(c, Callable(const), Len(h) + 1), Append(h, made.info),
                   name_list, cache_by_name)

\* lines 297-307: create the instance, populate the cache, return it
create_and_cache(c, h, const, name_list, cache_by_name) ==
    created(c, h, const, name_list, cache_by_name, HashInfo(const, name_list))

\* caching by name whatever the authoritative constructor is
cache_by_name_always(const, other_const) == TRUE

\* lines 271-292: may the constructor's descriptor be cached by name
cache_by_name_for(const, other_const) ==
    other_const = NoConst \/ other_const = const

(***************************************************************************)
(* lookup_hash(digest, return_unknown) on cache c and heap h.              *)
(***************************************************************************)
RECURSIVE lookup_hash(_, _, _, _)

\* lines 250-256: r is the outcome of lookup_hash(name, return_unknown)
after_call(digest, return_unknown, r) ==
    IF r.exc # "none" THEN r
    ELSE IF r.heap[r.info].const = NoConst
    THEN (IF return_unknown THEN r
          ELSE Result("AssertionError", 0, r.cache, r.heap))
    ELSE Result("none", r.info, cache_put(r.cache, digest, r.info), r.heap)

\* a tolerant call that caches the record it makes for an unknown name
lookup_found_caching_unknown(c, h, return_unknown, name_list, const) ==
    IF const # NoConst THEN create_and_cache(c, h, const, name_list, TRUE)
    ELSE IF return_unknown
    THEN Result("none", Len(h) + 1, cache_put(c, Str(name_list[1]), Len(h) + 1),
                Append(h, HashInfo(NoConst, name_list).info))
    ELSE Result("UnknownHashError", 0, c, h)

\* lines 258-265 and 297-307: the constructor found for the normalised name
lookup_found(c, h, return_unknown, name_list, const) ==
    IF const # NoConst THEN create_and_cache(c, h, const, name_list, TRUE)
    ELSE IF return_unknown
    THEN Result("none", Len(h) + 1, c, Append(h, HashInfo(NoConst, name_list).info))
    ELSE Result("UnknownHashError", 0, c, h)

\* lines 243-265: digest is a name, name_list its row
lookup_name(c, h, digest, return_unknown, name_list) ==
    IF name_list[1] = << >> THEN Result("AssertionError", 0, c, h)
    ELSE IF name_list[1] # digest.s
    THEN after_call(digest, return_unknown,
                    lookup_hash(c, h, Str(name_list[1]), return_unknown))
    ELSE lookup_found(c, h, return_unknown, name_list,
                      _get_hash_const(name_list[1], Len(h) + 1))

\* lines 272-292: digest is the constructor const, name_list the row of its name
lookup_const(c, h, const, name_list) ==
    create_and_cache(c, h, const, name_list,
                     cache_by_name_for(const, _get_hash_const(name_list[1], Len(h) + 1)))

lookup_hash(c, h, digest, return_unknown) ==
    IF cache_lookup(c, digest) = "hit" THEN Result("none", c[digest], c, h)
    ELSE IF ~caught(cache_lookup(c, digest)) THEN Result(cache_lookup(c, digest), 0, c, h)
    ELSE IF digest.kind = "str"
    THEN lookup_name(c, h, digest, return_unknown, _get_hash_aliases(digest.s))
    ELSE IF digest.kind = "info"
    THEN Result("none", digest.id, c, h)
    ELSE IF is_callable(digest)
    THEN (IF ~MakesHash(digest.c) THEN Result("TypeError", 0, c, h)
          ELSE lookup_const(c, h, digest.c, _get_hash_aliases(ConstName(digest.c))))
    ELSE Result("ExpectedTypeError", 0, c, h)

(***************************************************************************)
(* The handler registry (registry.py).  A str is a sequence of characters, *)
(* None and the empty str are << >> where a name or a path is expected.    *)
(* An object is its index in Objects; _handlers.get(name) is 0 for None.   *)
(* The modules that a location can name are the world Modules: importing   *)
(* one for the first time runs its body, which may register a handler.     *)
(***************************************************************************)
s_crypt == << "_","c","r","y","p","t" >>

s_md5_crypt == s_md5 \o s_crypt

s_MD5_Crypt == << "M","D","5","-","C","r","y","p","t" >>

s_bcrypt == << "b","c","r","y","p","t" >>

s_myhash == << "m","y","h","a","s","h" >>

s_MyHash == << "M","y","H","a","s","h" >>

s_all == << "a","l","l" >>

s_loader == << "l","o","a","d","e","r" >>

\* the private attribute __loader__, and a spelling that normalises to it
s__loader__ == << "_","_" >> \o s_loader \o << "_","_" >>

s_dashed_loader == << "-","-" >> \o s_loader \o << "-","-" >>

s_passlib_handlers == << "p","a","s","s","l","i","b",".","h","a","n","d","l","e","r","s","." >>

s_myapp == << "m","y","a","p","p","." >>

p_md5_crypt == s_passlib_handlers \o s_md5_crypt

p_bcrypt == s_passlib_handlers \o s_bcrypt

p_helpers == s_myapp \o << "h","e","l","p","e","r","s" >>

p_helpers_MyHash == p_helpers \o << ":" >> \o s_MyHash

p_auto == s_myapp \o << "a","u","t","o" >>

p_relative == << "." >> \o s_myhash

p_two_colons == << "a",":","b",":","c" >>

p_dotted_attr == << "a",":","b",".","c" >>

\* the objects a caller can hand to the registry: the handler class of
\* passlib.handlers.md5_crypt, an application's own md5_crypt, the
\* application's MyHash (name "myhash"), a handler class whose name is not
\* lower-case, a loader object (no handler), and a handler that is false
Objects ==
    << [ name |-> s_md5_crypt, crypt_handler |-> TRUE, truthy |-> TRUE ],
       [ name |-> s_md5_crypt, crypt_handler |-> TRUE, truthy |-> TRUE ],
       [ name |-> s_myhash, crypt_handler |-> TRUE, truthy |-> TRUE ],
       [ name |-> s_MyHash, crypt_handler |-> TRUE, truthy |-> TRUE ],
       [ name |-> << >>, crypt_handler |-> FALSE, truthy |-> TRUE ],
       [ name |-> s_myhash, crypt_handler |-> TRUE, truthy |-> FALSE ] >>

\* the loader object
a_loader == CHOOSE i \in DOMAIN Objects : ~Objects[i].crypt_handler

\* the modules that exist: their attributes, and the handler their body
\* registers when it runs (0: none).  passlib.handlers.bcrypt is missing
Modules ==
    (p_md5_crypt :> [ attrs |-> (s_md5_crypt :> 1), onload |-> 0 ])
        @@ (p_helpers :> [ attrs |-> (s_MyHash :> 3), onload |-> 0 ])
        @@ (p_auto :> [ attrs |-> << >>, onload |-> 3 ])

\* _locations (lines 87-166), two of its entries
InitLocations == (s_md5_crypt :> p_md5_crypt) @@ (s_bcrypt :> p_bcrypt)

\* values a call can return or take as default: _UNSET, None, an object
_UNSET == [ kind |-> "unset", id |-> 0 ]

None == [ kind |-> "None", id |-> 0 ]

Obj(i) == [ kind |-> "obj", id |-> i ]

\* bool(x) for None (0) and the objects
truthy(i) == i # 0 /\ Objects[i].truthy

\* d.get(k) of a dict of objects, and of a dict of strs
dict_get(d, k) == IF k \in DOMAIN d THEN d[k] ELSE 0

path_get(d, k) == IF k \in DOMAIN d THEN d[k] ELSE << >>

\* d[k] = v and del d[k]
dict_set(d, k, v) == (k :> v) @@ d

dict_del(d, k) == [ j \in DOMAIN d \ { k } |-> d[j] ]

\* the call raises exc, and the call returns value
Raised(reg, exc) == [ reg EXCEPT !.exc = exc, !.value = _UNSET ]

Gave(reg, value) == [ reg EXCEPT !.exc = "none", !.value = value ]

\* _name_re: "^[a-z][a-z0-9_]+[a-z0-9]$"
_name_re(name) ==
    /\ Len(name) >= 3
    /\ name[1] \in Letters
    /\ \A i \in 2..(Len(name) - 1) : name[i] \in Letters \cup Digits \cup { "_" }
    /\ name[Len(name)] \in Letters \cup Digits

_forbidden_names ==
    { << "o","n","l","o","a","d" >>, << "p","o","l","i","c","y" >>,
      << "c","o","n","t","e","x","t" >>, s_all,
      << "d","e","f","a","u","l","t" >>, << "n","o","n","e" >>,
      << "a","u","t","o" >> }

\* sub in s
contains(s, sub) ==
    \E i \in 1..(Len(s) - Len(sub) + 1) : SubSeq(s, i, i + Len(sub) - 1) = sub

\* _validate_handler_name(name): TRUE when it returns, FALSE for ValueError
_validate_handler_name(name) ==
    /\ name # << >>
    /\ str_lower(name) = name
    /\ _name_re(name)
    /\ ~contains(name, << "_","_" >>)
    /\ name \notin _forbidden_names

\* path.count(':'), path.index(':')
colons(path) == Cardinality({ i \in DOMAIN path : path[i] = ":" })

index_colon(path) == CHOOSE i \in DOMAIN path : path[i] = ":" /\ \A j \in 1..(i - 1) : path[j] # ":"

\* register_crypt_handler_path(name, path)
register_crypt_handler_path(reg, name, path) ==
    IF ~_validate_handler_name(name) THEN Raised(reg, "ValueError")
    ELSE IF startswith(path, << "." >>) THEN Raised(reg, "ValueError")
    ELSE IF colons(path) > 1 THEN Raised(reg, "ValueError")
    ELSE IF colons(path) = 1 /\ \E i \in index_colon(path)..Len(path) : path[i] = "."
         THEN Raised(reg, "ValueError")
    ELSE Gave([ reg EXCEPT !.locations = dict_set(@, name, path) ], None)

\* register_crypt_handler ignoring force: always stores
register_unchecked(reg, handler, force, name, other) ==
    Gave([ reg EXCEPT !.handlers = dict_set(@, name, handler) ], None)

\* register_crypt_handler from "check for existing handler" on (lines 279-294)
register_checked(reg, handler, force, name, other) ==
    IF truthy(other) /\ other = handler THEN Gave(reg, None)
    ELSE IF truthy(other) /\ ~force THEN Raised(reg, "KeyError")
    ELSE Gave([ reg EXCEPT !.handlers = dict_set(@, name, handler) ], None)

\* register_crypt_handler(handler, force, _attr)
register_crypt_handler(reg, handler, force, _attr) ==
    IF ~Objects[handler].crypt_handler THEN Raised(reg, "ExpectedTypeError")
    ELSE IF ~truthy(handler) THEN Raised(reg, "AssertionError")
    ELSE IF ~_validate_handler_name(Objects[handler].name) THEN Raised(reg, "ValueError")
    ELSE IF _attr # << >> /\ _attr # Objects[handler].name THEN Raised(reg, "ValueError")
    ELSE register_checked(reg, handler, force, Objects[handler].name,
                          dict_get(reg.handlers, Objects[handler].name))

\* an attribute assignment that stores the value as any object would
setattr_plain(reg, attr, value) ==
    Gave([ reg EXCEPT !.handlers = dict_set(@, attr, value) ], None)

\* _PasslibRegistryProxy.__setattr__(attr, value)
__setattr__(reg, attr, value) ==
    IF startswith(attr, << "_" >>)
    THEN Gave([ reg EXCEPT !.handlers = dict_set(@, attr, value) ], None)
    ELSE register_crypt_handler(reg, value, FALSE, attr)

\* the module's body ran
module_loaded(reg, got, modname) ==
    IF got.exc # "none" THEN got
    ELSE [ got EXCEPT !.sys_modules = @ \cup { modname } ]

\* __import__(modname, fromlist=[modattr], level=0): ImportError for a
\* module that does not exist; the body of a module runs at its first
\* import only, and a body that raises leaves the module unimported
import_module(reg, modname) ==
    IF modname \notin DOMAIN Modules THEN Raised(reg, "ImportError")
    ELSE IF modname \in reg.sys_modules \/ Modules[modname].onload = 0
         THEN module_loaded(reg, Gave(reg, None), modname)
    ELSE module_loaded(reg, register_crypt_handler(reg, Modules[modname].onload, FALSE, << >>),
                       modname)

\* modname, modattr of a location
modname_of(path) ==
    IF colons(path) = 0 THEN path ELSE SubSeq(path, 1, index_colon(path) - 1)

modattr_of(path, name) ==
    IF colons(path) = 0 THEN name ELSE SubSeq(path, index_colon(path) + 1, Len(path))

\* get_crypt_handler that takes no default
not_found_raising(reg, default) == Raised(reg, "KeyError")

\* the default, or KeyError without one
not_found(reg, default) ==
    IF default = _UNSET THEN Raised(reg, "KeyError") ELSE Gave(reg, default)

\* get_crypt_handler after register_crypt_handler(handler, _attr=name)
load_registered(got, handler) ==
    IF got.exc # "none" THEN got ELSE Gave(got, Obj(handler))

\* get_crypt_handler after __import__ (lines 351-362)
load_imported(got, name, mod, modattr) ==
    IF got.exc # "none" THEN got
    ELSE IF truthy(dict_get(got.handlers, name))
         THEN (IF ~Objects[got.handlers[name]].crypt_handler
               THEN Raised(got, "AssertionError")
               ELSE Gave(got, Obj(got.handlers[name])))
    ELSE IF modattr \notin DOMAIN mod.attrs THEN Raised(got, "AttributeError")
    ELSE load_registered(register_crypt_handler(got, mod.attrs[modattr], FALSE, name),
                         mod.attrs[modattr])

\* get_crypt_handler once the import ran: mod is read only when it exists
load_module(got, name, path) ==
    IF got.exc # "none" THEN got
    ELSE load_imported(got, name, Modules[modname_of(path)], modattr_of(path, name))

\* get_crypt_handler from "check if lazy load mapping" on (lines 338-369)
load_path(reg, name, path, default) ==
    IF path = << >> THEN not_found(reg, default)
    ELSE IF colons(path) > 1 THEN Raised(reg, "ValueError")
    ELSE load_module(import_module([ reg EXCEPT !.imports = @ + 1 ], modname_of(path)),
                     name, path)

\* get_crypt_handler that imports whatever the table holds
get_normalized_importing(reg, alt, name, default) ==
    load_path(reg, alt, path_get(reg.locations, alt), default)

\* get_crypt_handler from "normalize name" on (lines 324-336)
get_normalized(reg, alt, name, default) ==
    IF alt # name /\ alt \in DOMAIN reg.handlers
    THEN Gave(reg, Obj(reg.handlers[alt]))
    ELSE load_path(reg, alt, path_get(reg.locations, alt), default)

\* get_crypt_handler(name, default)
get_crypt_handler(reg, name, default) ==
    IF startswith(name, << "_" >>) THEN not_found(reg, default)
    ELSE IF name \in DOMAIN reg.handlers THEN Gave(reg, Obj(reg.handlers[name]))
    ELSE get_normalized(reg, str_lower(replace_hyphens(name)), name, default)

\* _unload_handler_name(name, locations)
_unload_handler_name(reg, name, locations) ==
    Gave([ reg EXCEPT
                 !.handlers = IF name \in DOMAIN @ THEN dict_del(@, name) ELSE @,
                 !.locations = IF locations /\ name \in DOMAIN @ THEN dict_del(@, name) ELSE @ ],
             None)

(***************************************************************************)
(* The state: the module-level cache, the HashInfo instances created so    *)
(* far (an instance is its index in heap), the last call with its outcome, *)
(* and, where a specification keeps them: the instances the strict calls   *)
(* returned, the name under test with the row it was normalised to, and    *)
(* the threads inside lookup_hash.                                         *)
(***************************************************************************)
VARIABLES cache, heap, call, returned, name_arg, name_row, threads, hmac_obj, kdf_call,
          registry

vars == << cache, heap, call, returned, name_arg, name_row, threads, hmac_obj, kdf_call,
          registry >>

\* instances created in one run
MaxInfos == 2

\* threads calling lookup_hash at the same time
NumThreads == 2

Threads == 1..NumThreads

\* callables: the callers' own and any constructor read back from a HashInfo
CallablePool(h) ==
    UserCallables \cup { h[i].const : i \in { j \in DOMAIN h : h[j].const # NoConst } }

Digests(h) ==
    { Str(s) : s \in NamePool }
        \cup { Callable(c) : c \in CallablePool(h) }
        \cup { InfoRef(i) : i \in DOMAIN h }
        \cup { Other(b) : b \in BOOLEAN }

NoCall == [ op |-> "none", digest |-> Other(TRUE), return_unknown |-> FALSE,
            exc |-> "none", info |-> 0 ]

\* a thread that has not called yet
Idle == [ status |-> "idle", stack |-> << >>, digest |-> Other(TRUE),
          exc |-> "none", info |-> 0 ]

\* no HMAC function compiled
NoHmac == [ status |-> "none", exc |-> "none", multipart |-> FALSE, info |-> 0,
            key |-> << >>, objs |-> << >>, ctxs |-> << >>, fed |-> << >>,
            op |-> "none", ctx |-> 0, msg |-> << >>, out |-> << >>,
            prev |-> << >>, again |-> FALSE ]

\* which pbkdf2 backends the build has, and the digest names each supports
NoBackends == [ fast |-> FALSE, fast_ok |-> {}, stdlib |-> FALSE, stdlib_ok |-> {} ]

\* no backend call
NoTerm == [ fn |-> "none", name |-> << >>, secret |-> << >>, salt |-> << >>,
            rounds |-> 0, keylen |-> << 0, 0, 0 >>, probe |-> FALSE ]

\* no argument
NoValue == [ kind |-> "None", neg |-> FALSE, mag |-> << 0, 0, 0 >> ]

\* the build's accumulator for the builtin pbkdf2 loop (lines 711-867), the
\* platform's word size (sys_bits) and its byte order
FromBytes == [ looper |-> "from-bytes", bits |-> 64, order |-> "little" ]

\* no key derivation called: the build's backends, the memoized probe
\* results of the HashInfo instances, and nothing else.  calls counts the
\* key derivations called, probed lists every execution of the body of a
\* memoized property with the instance it ran on; looper_cache is
\* _looper_cache, blocks and macs list what the builtin loop did: for each
\* block the first digest and the block, and the calls of keyed_hmac
NoKdf == [ status |-> "none", fn |-> "none", digest |-> Other(TRUE),
           secret |-> << >>, salt |-> << >>, rounds |-> NoValue, keylen |-> NoValue,
           exc |-> "none", msg |-> "", key |-> << >>, digests |-> 0,
           block_count |-> << 0, 0, 0 >>,
           backend |-> "none", delegated |-> NoTerm, log |-> << >>,
           env |-> NoBackends, memo |-> << >>, calls |-> 0, probed |-> << >>,
           platform |-> FromBytes, looper_cache |-> << >>, blocks |-> << >>, macs |-> 0 ]

\* the handler registry before any call: nothing loaded (_handlers is the
\* proxy's empty __dict__), the lazy-load locations (_locations, lines
\* 87-166, two of its entries), no module imported
NoRegistry == [ handlers |-> << >>, locations |-> InitLocations, sys_modules |-> {},
                op |-> "none", name |-> << >>, obj |-> 0, flag |-> FALSE,
                default |-> _UNSET, exc |-> "none", value |-> _UNSET, imports |-> 0 ]

\* no name under test
NoArg == [ kind |-> "none", s |-> << >>, of |-> << >> ]

Init ==
    /\ cache = << >>
    /\ heap = << >>
    /\ call = NoCall
    /\ returned = {}
    /\ name_arg = NoArg
    /\ name_row = << >>
    /\ threads = [ t \in Threads |-> Idle ]
    /\ hmac_obj = NoHmac
    /\ registry = NoRegistry
    /\ kdf_call = NoKdf

\* the state after a call with outcome r
Outcome(digest, return_unknown, r) ==
    /\ Len(r.heap) <= MaxInfos
    /\ cache' = r.cache
    /\ heap' = r.heap
    /\ call' = [ op |-> "lookup_hash", digest |-> digest,
                 return_unknown |-> return_unknown,
                 exc |-> r.exc, info |-> r.info ]

\* one call of lookup_hash(digest, return_unknown), start to end
Lookup(digest, return_unknown) ==
    Outcome(digest, return_unknown, lookup_hash(cache, heap, digest, return_unknown))

LookupHash(digest, return_unknown) ==
    /\ Lookup(digest, return_unknown)
    /\ UNCHANGED << returned, name_arg, name_row, threads, hmac_obj, kdf_call, registry >>

\* lookup_hash.clear_cache()
ClearCache ==
    /\ cache # << >>
    /\ cache' = << >>
    /\ call' = [ NoCall EXCEPT !.op = "clear_cache" ]
    /\ UNCHANGED << heap, returned, name_arg, name_row, threads, hmac_obj, kdf_call, registry >>

Next ==
    \/ \E digest \in Digests(heap), return_unknown \in BOOLEAN :
          LookupHash(digest, return_unknown)
    \/ ClearCache

Spec == Init /\ [][Next]_vars

(***************************************************************************)
(* SpecCalls: strict calls by name and by constructor from an empty cache, *)
(* with what each successful call returned kept in ``returned``.           *)
(***************************************************************************)
StrictLookup(digest) ==
    /\ Lookup(digest, FALSE)
    /\ returned' = IF call'.exc = "none"
                   THEN returned \cup { << digest, call'.info >> }
                   ELSE returned
    /\ UNCHANGED << name_arg, name_row, threads, hmac_obj, kdf_call, registry >>

NextCalls ==
    \E digest \in { Str(s) : s \in NamePool }
                    \cup { Callable(c) : c \in CallablePool(heap) } :
        StrictLookup(digest)

SpecCalls == Init /\ [][NextCalls]_vars
(***************************************************************************)
(* SpecNames: one name, normalised by _get_hash_aliases and then resolved  *)
(* by lookup_hash from the empty cache.  The names are the spellings of    *)
(* the table's names, and stems followed by every short tail of hyphens    *)
(* and digits.                                                             *)
(***************************************************************************)
\* whitespace around a name, per side
MaxPad == 1

\* characters after the stem
MaxTail == 6

TableNames == UNION { RowNames(_known_hash_names[r]) : r \in DOMAIN _known_hash_names }

LetterPositions(s) == { i \in 1..Len(s) : s[i] \in Letters }

\* s with the letters at positions U in upper case
WithUpper(s, U) == AsStr([ i \in 1..Len(s) |-> IF i \in U THEN UpperOf[s[i]] ELSE s[i] ])

\* s in lower case, capitalised, and all in upper case
CaseSpellings(s) ==
    { WithUpper(s, U) : U \in { {} , { 1 }, LetterPositions(s) } }

\* s with its hyphens written as sep
WithSeparator(s, sep) == AsStr([ i \in 1..Len(s) |-> IF s[i] = "-" THEN sep ELSE s[i] ])

SeparatorSpellings(s) == { WithSeparator(s, sep) : sep \in { "-", "_", " ", "/" } }

\* s as a SCRAM mechanism name
ScramSpellings(s) ==
    { s,
      s_scram_ \o s,
      s_scram_ \o s \o s_plus,
      << "S","C","R","A","M","_" >> \o s \o << "/","P","L","U","S" >> }

PadStrings == { [ i \in 1..n |-> w ] \o << >> : n \in 0..MaxPad, w \in Whitespace }

Padded(s) == { l \o s \o r : l \in PadStrings, r \in PadStrings }

\* every spelling of table name t
Spellings(t) ==
    UNION { UNION { UNION { Padded(z) : z \in ScramSpellings(y) }
                    : y \in SeparatorSpellings(x) }
            : x \in CaseSpellings(t) }

Tails == UNION { [ 1..n -> { "-", "2", "5", "6" } ] : n \in 0..MaxTail }

Stems == { s_sha, << "m","d" >> }

NameArgs ==
    UNION { { [ kind |-> "spelling", s |-> x, of |-> t ] : x \in Spellings(t) }
            : t \in TableNames }
      \cup UNION { { [ kind |-> "plus", s |-> x \o s_plus, of |-> t ]
                      : x \in CaseSpellings(t) }
                    : t \in TableNames }
      \cup { [ kind |-> "tail", s |-> stem \o (tail \o << >>), of |-> << >> ]
             : stem \in Stems, tail \in Tails }
      \cup { [ kind |-> "other", s |-> x, of |-> << >> ]
             : x \in { s_xyz, << "x","-","y" >>, << >>, << " " >>, << "-" >>,
                       << "2","5","6" >>, s_pbkdf2_hmac,
                       s_scram_, s_scram_ \o s_scram_ \o s_md5 } }

InitNames ==
    /\ cache = << >>
    /\ heap = << >>
    /\ call = NoCall
    /\ returned = {}
    /\ name_arg \in NameArgs
    /\ name_row = << >>
    /\ threads = [ t \in Threads |-> Idle ]
    /\ hmac_obj = NoHmac
    /\ registry = NoRegistry
    /\ kdf_call = NoKdf

\* row = _get_hash_aliases(name)
Normalise ==
    /\ name_row = << >>
    /\ name_row' = _get_hash_aliases(name_arg.s)
    /\ UNCHANGED << cache, heap, call, returned, name_arg, threads, hmac_obj, kdf_call, registry >>

\* what a call adds to ``returned``: the instance a strict call returned
Returned(digest, return_unknown) ==
    IF call'.exc = "none" /\ ~return_unknown
    THEN returned \cup { << digest, call'.info >> }
    ELSE returned

\* lookup_hash(name, return_unknown) from the empty cache
ResolveName(return_unknown) ==
    /\ name_row # << >>
    /\ call.op = "none"
    /\ Lookup(Str(name_arg.s), return_unknown)
    /\ returned' = Returned(Str(name_arg.s), return_unknown)
    /\ UNCHANGED << name_arg, name_row, threads, hmac_obj, kdf_call, registry >>

\* then lookup_hash(row[0]): the name in its canonical form
ResolveCanonical ==
    /\ call.op = "lookup_hash"
    /\ Lookup(Str(name_row[1]), FALSE)
    /\ returned' = Returned(Str(name_row[1]), FALSE)
    /\ UNCHANGED << name_arg, name_row, threads, hmac_obj, kdf_call, registry >>

NextNames ==
    \/ Normalise
    \/ \E return_unknown \in BOOLEAN : ResolveName(return_unknown)
    \/ ResolveCanonical

SpecNames == InitNames /\ [][NextNames]_vars
(***************************************************************************)
(* SpecThreads: threads calling lookup_hash (strict) on the one cache.     *)
(* The interpreter runs one thread at a time and may switch threads        *)
(* between any two statements; lookup_hash takes no lock.  A step is one   *)
(* statement that reads or writes the cache, with the thread-local         *)
(* statements before the next one.  A thread's stack holds one frame per   *)
(* active call of lookup_hash.                                             *)
(***************************************************************************)
\* what the threads pass
ThreadDigests ==
    { Str(s_sha256), Str(<< "S","H","A","2","_","2","5","6" >>),
      Callable(HashlibAttr(s_sha256)), Callable(mock_sha256) }

\* the frame of a call that is about to try the cache
Frame(digest) ==
    [ pc |-> "try", digest |-> digest, name_list |-> << >>, const |-> NoConst,
      cache_by_name |-> TRUE, info |-> 0, i |-> 1, exc |-> "none" ]

Top(t) == threads[t].stack[Len(threads[t].stack)]

At(t, pc) == threads[t].status = "running" /\ Top(t).pc = pc

\* the thread's top frame becomes f
Goto(t, f) ==
    [ threads EXCEPT ![t].stack = [ @ EXCEPT ![Len(@)] = f ] ]

\* the top frame ends, returning info or raising exc: the caller's frame
\* gets them, or the thread is done
Leave(t, exc, info) ==
    LET stack == threads[t].stack
        n == Len(stack)
    IN  IF n = 1
        THEN [ threads EXCEPT ![t] = [ @ EXCEPT !.status = "done", !.stack = << >>,
                                                  !.exc = exc, !.info = info ] ]
        ELSE [ threads EXCEPT ![t].stack =
                 [ k \in 1..(n - 1) |->
                     IF k = n - 1
                     THEN [ stack[k] EXCEPT !.exc = exc, !.info = info ]
                     ELSE stack[k] ] ]

\* a thread calls lookup_hash(digest)
ThreadCall(t, digest) ==
    /\ threads[t].status = "idle"
    /\ threads' = [ threads EXCEPT ![t] = [ @ EXCEPT !.status = "running",
                                                       !.stack = << Frame(digest) >>,
                                                       !.digest = digest ] ]
    /\ UNCHANGED << cache, heap, call, returned, name_arg, name_row, hmac_obj, kdf_call, registry >>

\* lines 231-237: ``try: return cache[digest]``
TryCache(t) ==
    /\ At(t, "try")
    /\ LET e == cache_lookup(cache, Top(t).digest)
       IN  threads' = IF e = "hit" THEN Leave(t, "none", cache[Top(t).digest])
                      ELSE IF ~caught(e) THEN Leave(t, e, 0)
                      ELSE Goto(t, [ Top(t) EXCEPT !.pc = "resolve" ])
    /\ UNCHANGED << cache, heap, call, returned, name_arg, name_row, hmac_obj, kdf_call, registry >>

\* lines 243-265: the frame's digest is a name, name_list its row
ResolveStr(t, f, name_list, const) ==
    IF name_list[1] = << >> THEN Leave(t, "AssertionError", 0)
    ELSE IF name_list[1] # f.digest.s
    THEN [ threads EXCEPT ![t].stack =
             Append([ @ EXCEPT ![Len(@)] =
                        [ f EXCEPT !.pc = "after_call", !.name_list = name_list ] ],
                    Frame(Str(name_list[1]))) ]
    ELSE IF const = NoConst THEN Leave(t, "UnknownHashError", 0)
    ELSE Goto(t, [ f EXCEPT !.pc = "create", !.name_list = name_list,
                            !.const = const ])

\* lines 272-292: the frame's digest is a constructor, name_list the row of
\* its name
ResolveConst(t, f, name_list, other_const) ==
    Goto(t, [ f EXCEPT !.pc = "create", !.name_list = name_list,
                       !.const = f.digest.c,
                       !.cache_by_name = cache_by_name_for(f.digest.c, other_const) ])

\* the wrapper a thread would create now is no other thread's
Serial(t) == Len(heap) * NumThreads + t

\* lines 239-295: find the names and the constructor, or call lookup_hash
\* with the normalised name
Resolve(t) ==
    /\ At(t, "resolve")
    /\ threads' =
         IF Top(t).digest.kind = "str"
         THEN ResolveStr(t, Top(t), _get_hash_aliases(Top(t).digest.s),
                         _get_hash_const(Canonical(Top(t).digest.s), Serial(t)))
         ELSE IF Top(t).digest.kind = "info" THEN Leave(t, "none", Top(t).digest.id)
         ELSE IF is_callable(Top(t).digest)
         THEN IF ~MakesHash(Top(t).digest.c) THEN Leave(t, "TypeError", 0)
              ELSE ResolveConst(t, Top(t),
                                _get_hash_aliases(ConstName(Top(t).digest.c)),
                                _get_hash_const(Canonical(ConstName(Top(t).digest.c)),
                                                Serial(t)))
         ELSE Leave(t, "ExpectedTypeError", 0)
    /\ UNCHANGED << cache, heap, call, returned, name_arg, name_row, hmac_obj, kdf_call, registry >>

\* lines 250-256: the call with the normalised name is over
AfterCall(t) ==
    /\ At(t, "after_call")
    /\ LET f == Top(t)
       IN  IF f.exc # "none"
           THEN threads' = Leave(t, f.exc, 0) /\ cache' = cache
           ELSE IF heap[f.info].const = NoConst
           THEN threads' = Leave(t, "AssertionError", 0) /\ cache' = cache
           ELSE /\ cache' = cache_put(cache, f.digest, f.info)
                /\ threads' = Leave(t, "none", f.info)
    /\ UNCHANGED << heap, call, returned, name_arg, name_row, hmac_obj, kdf_call, registry >>

\* line 298: ``info = HashInfo(const, name_list)``
Create(t) ==
    /\ At(t, "create")
    /\ LET f == Top(t)
           made == HashInfo(f.const, f.name_list)
       IN  IF made.exc # "none"
           THEN threads' = Leave(t, made.exc, 0) /\ heap' = heap
           ELSE /\ heap' = Append(heap, made.info)
                /\ threads' = Goto(t, [ f EXCEPT !.pc = "put_const",
                                                 !.info = Len(heap) + 1 ])
    /\ UNCHANGED << cache, call, returned, name_arg, name_row, hmac_obj, kdf_call, registry >>

\* lines 301-302: ``cache[const] = info``
PutConst(t) ==
    /\ At(t, "put_const")
    /\ cache' = cache_put(cache, Callable(Top(t).const), Top(t).info)
    /\ threads' = IF Top(t).cache_by_name
                  THEN Goto(t, [ Top(t) EXCEPT !.pc = "check_name" ])
                  ELSE Leave(t, "none", Top(t).info)
    /\ UNCHANGED << heap, call, returned, name_arg, name_row, hmac_obj, kdf_call, registry >>

\* lines 303-305: the next name of name_list, and the assert on it
CheckName(t) ==
    /\ At(t, "check_name")
    /\ LET f == Top(t)
       IN  threads' =
             IF f.i > Len(f.name_list) THEN Leave(t, "none", f.info)
             ELSE IF f.name_list[f.i] = << >> THEN Goto(t, [ f EXCEPT !.i = @ + 1 ])
             ELSE IF ~assert_free(cache, heap, Str(f.name_list[f.i]), f.info)
             THEN Leave(t, "AssertionError", 0)
             ELSE Goto(t, [ f EXCEPT !.pc = "put_name" ])
    /\ UNCHANGED << cache, heap, call, returned, name_arg, name_row, hmac_obj, kdf_call, registry >>

\* line 306: ``cache[name] = info``
PutName(t) ==
    /\ At(t, "put_name")
    /\ cache' = cache_put(cache, Str(Top(t).name_list[Top(t).i]), Top(t).info)
    /\ threads' = Goto(t, [ Top(t) EXCEPT !.pc = "check_name", !.i = @ + 1 ])
    /\ UNCHANGED << heap, call, returned, name_arg, name_row, hmac_obj, kdf_call, registry >>

NextThreads ==
    \E t \in Threads :
        \/ \E digest \in ThreadDigests : ThreadCall(t, digest)
        \/ TryCache(t)
        \/ Resolve(t)
        \/ AfterCall(t)
        \/ Create(t)
        \/ PutConst(t)
        \/ CheckName(t)
        \/ PutName(t)

SpecThreads == Init /\ [][NextThreads]_vars

(***************************************************************************)
(* The digest primitive.  A hash object is the octets fed to it so far;    *)
(* const(data).digest() is a stand-in for the platform's function: it      *)
(* depends on every octet, on their order and their number, and has the    *)
(* length the constructor's digests have.                                  *)
(***************************************************************************)
Octets == 0..255

\* the weight of the octet at position i
weight(i) == (i * i * 37 + i * 11 + 1) % 65521

\* the weighted sum of the octets of data (the size of the bag holding
\* position i as often as its weighted octet says)
weighted_sum(data) ==
    BagCardinality([ i \in DOMAIN data |-> (((data[i] + 1) * weight(i)) % 65521) + 1 ])
        % 65521

\* the octets of a digest with checksum r: the first two determine r
digest_octets(const, r) ==
    AsStr([ i \in 1..ConstDigestLen(const) |->
              ((r % 256) * (2 * i + 1) + (r \div 256) * (i * i + 3)
                  + ConstBlockSize(const)) % 256 ])

\* const(data).digest()
hash_digest(const, data) == digest_octets(const, weighted_sum(data))

\* x ^ y on the lowest bits of two octets
RECURSIVE bit_xor(_, _, _)
bit_xor(x, y, bits) ==
    IF bits = 0 THEN 0
    ELSE ((x + y) % 2) + 2 * bit_xor(x \div 2, y \div 2, bits - 1)

\* join_byte_values((x ^ 0x5C) for x in irange(256))
_TRANS_5C == [ x \in Octets |-> bit_xor(x, 92, 8) ]

\* join_byte_values((x ^ 0x36) for x in irange(256))
_TRANS_36 == [ x \in Octets |-> bit_xor(x, 54, 8) ]

\* key.translate(table)
translate(key, table) == AsStr([ i \in 1..Len(key) |-> table[key[i]] ])

\* b'\x00' * n
zeros(n) == AsStr([ i \in 1..n |-> 0 ])

(***************************************************************************)
(* compile_hmac(digest, key, multipart).  The hash objects the compiled    *)
(* function holds and creates live in objs (an object is its index):       *)
(* the inner and outer seed first, then the copies.                        *)
(***************************************************************************)
\* lines 502-503: ``if klen > block_size: key = const(key).digest()``
hashed_key(info, key) ==
    IF Len(key) > info.block_size THEN hash_digest(info.const, key) ELSE key

\* lines 501-504: klen
hashed_klen(info, key) ==
    IF Len(key) > info.block_size THEN info.digest_size ELSE Len(key)

\* a key that is never padded
padded_key_unpadded(key, klen, block_size) == key

\* lines 505-506: ``if klen < block_size: key += b'\x00' * (block_size - klen)``
padded_key(key, klen, block_size) ==
    IF klen < block_size THEN key \o zeros(block_size - klen) ELSE key

\* lines 499-506: the key as fed to the seeds
prepare_key(info, key) ==
    padded_key(hashed_key(info, key), hashed_klen(info, key), info.block_size)

\* lines 509-510: the objects const(key.translate(_TRANS_36)) and
\* const(key.translate(_TRANS_5C))
seed_objects(key) == << translate(key, _TRANS_36), translate(key, _TRANS_5C) >>

inner_seed == 1

outer_seed == 2

\* a copy that is the object itself
copied_id_same(objs, id) == id

\* H.copy(): the new object
copied_id(objs, id) == Len(objs) + 1

obj_copy(objs, id) == Append(objs, objs[id])

\* an update that forgets what was fed before
obj_update_replacing(objs, id, data) == [ objs EXCEPT ![id] = data ]

\* H.update(data)
obj_update(objs, id, data) == [ objs EXCEPT ![id] = @ \o data ]

\* ``return outer.digest()``; the copies made in the call beyond the first
\* keep objects are garbage
hmac_result(const, objs, outer, keep) ==
    [ digest |-> hash_digest(const, objs[outer]), objs |-> SubSeq(objs, 1, keep) ]

\* ``outer = _outer_copy(); outer.update(inner.digest())``
hmac_outer(const, objs, outer, inner_digest, keep) ==
    hmac_result(const, obj_update(obj_copy(objs, outer_seed), outer, inner_digest),
                outer, keep)

\* a finalize whose inner.digest() closes the inner object with a padding
\* octet
hmac_finalize_consuming(const, objs, inner, keep) ==
    hmac_outer(const, obj_update(objs, inner, << 128 >>), copied_id(objs, outer_seed),
               hash_digest(const, objs[inner]), keep)

\* lines 519-522: finalize() of the context whose inner object is inner
hmac_finalize(const, objs, inner, keep) ==
    hmac_outer(const, objs, copied_id(objs, outer_seed),
               hash_digest(const, objs[inner]), keep)

\* lines 527-533: hmac(msg), single-shot
hmac_msg(const, objs, msg) ==
    hmac_finalize(const,
                  obj_update(obj_copy(objs, inner_seed), copied_id(objs, inner_seed), msg),
                  copied_id(objs, inner_seed), Len(objs))

(***************************************************************************)
(* SpecHmac: one compile_hmac(digest, key, multipart) from the empty       *)
(* cache, then calls of the function it returned.  hmac_obj holds the      *)
(* closure: the HashInfo, the hash objects (seeds and live copies), the    *)
(* inner object of every context handed out, and, for the properties, the  *)
(* chunks each context was fed, the last call, whether the call before it  *)
(* was the same call on the same context (again), and the last two digests *)
(* returned (out, and prev before it).                                     *)
(***************************************************************************)
\* contexts obtained from one multipart function
MaxContexts == 2

\* update calls over all contexts
MaxUpdates == 2

\* key lengths: at the block size 16, and above the block sizes 16 and 64
KeyLens == { 16, 17, 65 }

HmacKeys == { AsStr([ i \in 1..n |-> (i * 7 + n) % 256 ]) : n \in KeyLens }

Chunks == { << >>, << 1 >>, << 2, 3 >> }

Msgs == { a \o b : a \in Chunks, b \in Chunks }

HmacDigests ==
    { Str(s_md5), Str(s_xyz), Callable(wide), Callable(narrow) }

\* lines 494-496 failing
hmac_failed(exc) == [ NoHmac EXCEPT !.status = "failed", !.exc = exc ]

\* lines 499-537
hmac_compiled(info, id, key, multipart) ==
    [ NoHmac EXCEPT !.status = "compiled", !.multipart = multipart, !.info = id,
                    !.key = key, !.objs = seed_objects(prepare_key(info, key)) ]

\* compile_hmac after ``digest_info = lookup_hash(digest)``
hmac_after_lookup(exc, h, id, key, multipart) ==
    IF exc # "none" THEN hmac_failed(exc)
    ELSE IF ~(h[id].block_size >= 16) THEN hmac_failed("AssertionError")
    ELSE hmac_compiled(h[id], id, key, multipart)

CompileHmac(digest, key, multipart) ==
    /\ hmac_obj.status = "none"
    /\ Lookup(digest, FALSE)
    /\ hmac_obj' = hmac_after_lookup(call'.exc, heap', call'.info, key, multipart)
    /\ UNCHANGED << returned, name_arg, name_row, threads, kdf_call, registry >>

\* the closure after a call that returned r
hmac_returned(f, r, op, k, msg) ==
    [ f EXCEPT !.objs = r.objs, !.prev = f.out, !.out = r.digest,
               !.op = op, !.ctx = k, !.msg = msg,
               !.again = (f.op = op /\ f.ctx = k) ]

\* hmac(msg) of the single-shot function
CallHmac(msg) ==
    /\ hmac_obj.status = "compiled"
    /\ ~hmac_obj.multipart
    /\ hmac_obj' = hmac_returned(hmac_obj,
                                 hmac_msg(heap[hmac_obj.info].const, hmac_obj.objs, msg),
                                 "hmac", 0, msg)
    /\ UNCHANGED << cache, heap, call, returned, name_arg, name_row, threads, kdf_call, registry >>

\* hmac() of the multipart function: ``inner = _inner_copy()``
NewContext ==
    /\ hmac_obj.status = "compiled"
    /\ hmac_obj.multipart
    /\ Len(hmac_obj.ctxs) < MaxContexts
    /\ hmac_obj' = [ hmac_obj EXCEPT
                       !.objs = obj_copy(@, inner_seed),
                       !.ctxs = Append(@, copied_id(hmac_obj.objs, inner_seed)),
                       !.fed = Append(@, << >>),
                       !.op = "context", !.ctx = Len(hmac_obj.ctxs) + 1,
                       !.msg = << >>, !.again = FALSE ]
    /\ UNCHANGED << cache, heap, call, returned, name_arg, name_row, threads, kdf_call, registry >>

\* chunks fed to context k, joined
RECURSIVE join_bytes(_)
join_bytes(chunks) ==
    IF chunks = << >> THEN << >> ELSE Head(chunks) \o join_bytes(Tail(chunks))

Updates(f) == Len(join_bytes([ k \in DOMAIN f.fed |-> [ j \in DOMAIN f.fed[k] |-> << 0 >> ] ]))

\* update(chunk) of context k: inner.update
Update(k, chunk) ==
    /\ hmac_obj.status = "compiled"
    /\ k \in DOMAIN hmac_obj.ctxs
    /\ Updates(hmac_obj) < MaxUpdates
    /\ hmac_obj' = [ hmac_obj EXCEPT
                       !.objs = obj_update(@, hmac_obj.ctxs[k], chunk),
                       !.fed[k] = Append(@, chunk),
                       !.op = "update", !.ctx = k, !.msg = chunk, !.again = FALSE ]
    /\ UNCHANGED << cache, heap, call, returned, name_arg, name_row, threads, kdf_call, registry >>

\* finalize() of context k
Finalize(k) ==
    /\ hmac_obj.status = "compiled"
    /\ k \in DOMAIN hmac_obj.ctxs
    /\ hmac_obj' = hmac_returned(hmac_obj,
                                 hmac_finalize(heap[hmac_obj.info].const, hmac_obj.objs,
                                               hmac_obj.ctxs[k], Len(hmac_obj.objs)),
                                 "finalize", k, << >>)
    /\ UNCHANGED << cache, heap, call, returned, name_arg, name_row, threads, kdf_call, registry >>

NextHmac ==
    \/ \E digest \in HmacDigests, key \in HmacKeys, multipart \in BOOLEAN :
          CompileHmac(digest, key, multipart)
    \/ \E msg \in Msgs : CallHmac(msg)
    \/ NewContext
    \/ \E k \in 1..MaxContexts, chunk \in Chunks : Update(k, chunk)
    \/ \E k \in 1..MaxContexts : Finalize(k)

SpecHmac == Init /\ [][NextHmac]_vars

(***************************************************************************)
(* Python's integers are unbounded; a key length can exceed 2^31.  A       *)
(* natural number is three limbs of 16 bits, least significant first.      *)
(***************************************************************************)
LimbBase == 65536

\* the limbs of a small natural n
big(n) == << n % LimbBase, (n \div LimbBase) % LimbBase, 0 >>

\* the limbs of low + mid * LimbBase + high * LimbBase^2, carries propagated
big_carry(low, mid, high) ==
    << low % LimbBase,
       (mid + low \div LimbBase) % LimbBase,
       high + (mid + low \div LimbBase) \div LimbBase >>

\* x + n for a small natural n
big_add(x, n) == big_carry(x[1] + n, x[2], x[3])

\* x * n for a small natural n
big_mul(x, n) == big_carry(x[1] * n, x[2] * n, x[3] * n)

\* x - n for a small natural n <= x, n < LimbBase
big_sub(x, n) ==
    IF x[1] >= n THEN << x[1] - n, x[2], x[3] >>
    ELSE IF x[2] > 0 THEN << x[1] + LimbBase - n, x[2] - 1, x[3] >>
    ELSE << x[1] + LimbBase - n, LimbBase - 1, x[3] - 1 >>

\* long division, lowest limb: quotient limbs high and mid are known
big_div_low(n, high, mid, rest) == << rest \div n, mid, high >>

big_div_mid(x, n, high, rest) ==
    big_div_low(n, high, rest \div n, (rest % n) * LimbBase + x[1])

\* x // n for a small natural n > 0
big_floordiv(x, n) == big_div_mid(x, n, x[3] \div n, (x[3] % n) * LimbBase + x[2])

\* x > y
big_gt(x, y) ==
    \/ x[3] > y[3]
    \/ x[3] = y[3] /\ x[2] > y[2]
    \/ x[3] = y[3] /\ x[2] = y[2] /\ x[1] > y[1]

\* x << 32 for x < LimbBase
big_shl32(x) == << 0, 0, x[1] >>

\* the value of x when it fits
big_small(x) == x[1] + x[2] * LimbBase

\* MAX_UINT32 = (1 << 32) - 1
MAX_UINT32 == big_sub(big_shl32(big(1)), 1)

(***************************************************************************)
(* Arguments of the key derivation functions.  rounds and keylen are       *)
(* Python objects: an int, None, or something else.                        *)
(***************************************************************************)
IntArg(n) == [ kind |-> "int", neg |-> n < 0, mag |-> IF n < 0 THEN big(0 - n) ELSE big(n) ]

BigArg(x) == [ kind |-> "int", neg |-> FALSE, mag |-> x ]

NoneArg == [ kind |-> "None", neg |-> FALSE, mag |-> big(0) ]

\* an object that is no int, "3"
StrArg == [ kind |-> "str", neg |-> FALSE, mag |-> big(0) ]

\* isinstance(v, int_types)
is_int(v) == v.kind = "int"

\* v < n for an int v and a small natural n
int_lt(v, n) == v.neg \/ big_gt(big(n), v.mag)

\* v > n + 1
int_gt_next(v, n) == ~v.neg /\ big_gt(v.mag, big(n + 1))

\* v > n for an int v and a small natural n
int_gt(v, n) == ~v.neg /\ big_gt(v.mag, big(n))

\* block[:keylen] for keylen >= 0
prefix(block, keylen) ==
    IF big_gt(keylen.mag, big(Len(block))) THEN block
    ELSE SubSeq(block, 1, big_small(keylen.mag))

(***************************************************************************)
(* pbkdf1(digest, secret, salt, rounds, keylen)                            *)
(***************************************************************************)
\* what a call of a key derivation function leaves: the exception or the
\* key, and how often the digest primitive was run
KdfResult(exc, key, digests) == [ exc |-> exc, key |-> key, digests |-> digests ]

\* lines 597-598: ``for _ in irange(rounds): block = const(block).digest()``
RECURSIVE pbkdf1_loop(_, _, _, _)
pbkdf1_loop(const, block, done, rounds) ==
    IF done >= rounds THEN [ block |-> block, digests |-> done ]
    ELSE pbkdf1_loop(const, hash_digest(const, block), done + 1, rounds)

\* a return of the whole block
pbkdf1_return_whole(looped, keylen) == KdfResult("none", looped.block, looped.digests)

\* line 599: ``return block[:keylen]``
pbkdf1_return(looped, keylen) == KdfResult("none", prefix(looped.block, keylen), looped.digests)

\* lines 595-599
pbkdf1_main(info, secret, salt, rounds, keylen) ==
    pbkdf1_return(pbkdf1_loop(info.const, secret \o salt, 0, big_small(rounds.mag)), keylen)

\* lines 578-599, after lookup_hash returned info
pbkdf1_checked(info, secret, salt, rounds, keylen) ==
    IF ~is_int(rounds) THEN KdfResult("TypeError", << >>, 0)
    ELSE IF int_lt(rounds, 1) THEN KdfResult("ValueError", << >>, 0)
    ELSE IF keylen.kind = "None"
    THEN pbkdf1_main(info, secret, salt, rounds, IntArg(info.digest_size))
    ELSE IF ~is_int(keylen) THEN KdfResult("TypeError", << >>, 0)
    ELSE IF int_lt(keylen, 0) THEN KdfResult("ValueError", << >>, 0)
    ELSE IF int_gt(keylen, info.digest_size) THEN KdfResult("ValueError", << >>, 0)
    ELSE pbkdf1_main(info, secret, salt, rounds, keylen)

\* lines 572-599: r is what lookup_hash(digest) left
pbkdf1(r, secret, salt, rounds, keylen) ==
    IF r.exc # "none" THEN KdfResult(r.exc, << >>, 0)
    ELSE pbkdf1_checked(r.heap[r.info], secret, salt, rounds, keylen)

(***************************************************************************)
(* pbkdf2_hmac(digest, secret, salt, rounds, keylen).  kd is the state of  *)
(* the call: the build's backends (env), the probe results memoized on the *)
(* HashInfo instances (memo, by instance) and the calls made to backend    *)
(* functions (log).                                                        *)
(***************************************************************************)
\* a memoized_property not read yet
Unset == [ fast |-> "unset", stdlib |-> "unset" ]

memo_of(memo, id) == IF id \in DOMAIN memo THEN memo[id] ELSE Unset

memo_put(memo, id, val) ==
    [ k \in DOMAIN memo \cup { id } |-> IF k = id THEN val ELSE memo[k] ]

\* _fast_pbkdf2_hmac(name, secret, salt, rounds, keylen) or the same call
\* of _stdlib_pbkdf2_hmac
backend_call(fn, name, secret, salt, rounds, keylen) ==
    [ fn |-> fn, name |-> name, secret |-> secret, salt |-> salt,
      rounds |-> rounds, keylen |-> keylen, probe |-> FALSE ]

\* lines 431, 442: ``_fast_pbkdf2_hmac(self.name, b"p", b"s", 1)``
backend_probe(fn, name) ==
    [ fn |-> fn, name |-> name, secret |-> << 112 >>, salt |-> << 115 >>,
      rounds |-> 1, keylen |-> << 0, 0, 0 >>, probe |-> TRUE ]

\* the body of a memoized property ran on instance id
ran(kd, prop, id) == [ kd EXCEPT !.probed = Append(@, [ prop |-> prop, info |-> id ]) ]

\* lines 426-435: HashInfo.supported_by_fastpbkdf2, first read
fast_probed(kd, id, name) ==
    IF ~kd.env.fast
    THEN [ ran(kd, "fast", id) EXCEPT
             !.memo = memo_put(@, id, [ memo_of(@, id) EXCEPT !.fast = "None" ]) ]
    ELSE [ ran(kd, "fast", id) EXCEPT
             !.log = Append(@, backend_probe("fastpbkdf2", name)),
             !.memo = memo_put(@, id,
                               [ memo_of(@, id) EXCEPT
                                   !.fast = IF name \in kd.env.fast_ok THEN "True"
                                            ELSE "False" ]) ]

\* a property that runs its body at every read
fast_read_unmemoized(kd, id, name) == fast_probed(kd, id, name)

\* digest_info.supported_by_fastpbkdf2
fast_read(kd, id, name) ==
    IF memo_of(kd.memo, id).fast # "unset" THEN kd ELSE fast_probed(kd, id, name)

\* lines 437-446: HashInfo.supported_by_hashlib_pbkdf2, first read
stdlib_probed(kd, id, name) ==
    IF ~kd.env.stdlib
    THEN [ ran(kd, "stdlib", id) EXCEPT
             !.memo = memo_put(@, id, [ memo_of(@, id) EXCEPT !.stdlib = "None" ]) ]
    ELSE [ ran(kd, "stdlib", id) EXCEPT
             !.log = Append(@, backend_probe("hashlib", name)),
             !.memo = memo_put(@, id,
                               [ memo_of(@, id) EXCEPT
                                   !.stdlib = IF name \in kd.env.stdlib_ok THEN "True"
                                              ELSE "False" ]) ]

\* digest_info.supported_by_hashlib_pbkdf2
stdlib_read(kd, id, name) ==
    IF memo_of(kd.memo, id).stdlib # "unset" THEN kd ELSE stdlib_probed(kd, id, name)

\* what pbkdf2_hmac leaves: the cache, the instances, the lookup's outcome
\* and the state of the call
Kdf2(r, kd) == [ cache |-> r.cache, heap |-> r.heap, exc |-> r.exc, info |-> r.info, kd |-> kd ]

\* an exception with its message (for ExpectedTypeError, the parameter)
kdf_raised(kd, exc, msg) == [ kd EXCEPT !.status = "raised", !.exc = exc, !.msg = msg ]

\* ``return fn(digest_info.name, secret, salt, rounds, keylen)``
kdf_delegated(kd, term) ==
    [ kd EXCEPT !.status = "returned", !.backend = term.fn, !.delegated = term,
                !.log = Append(@, term) ]

\* _pack_uint32(i), Struct(">L").pack
_pack_uint32(i) ==
    << (i \div 16777216) % 256, (i \div 65536) % 256, (i \div 256) % 256, i % 256 >>

\* a xor b, octet by octet, on octet strings of one length
xor_bytes(a, b) == AsStr([ i \in 1..Len(a) |-> bit_xor(a[i], b[i], 8) ])

\* keyed_hmac(msg) of ``keyed_hmac = compile_hmac(digest, secret)``
keyed_hmac(const, seeds, msg) == hmac_msg(const, seeds, msg).digest

(***************************************************************************)
(* The accumulators of the builtin loop.  A Python int is its base-256     *)
(* digits, least significant first, without leading zeros; a struct lane   *)
(* (Q: 8 octets, I: 4 octets) is its 16-bit limbs, least significant       *)
(* first.                                                                  *)
(***************************************************************************)
digit(x, k) == IF k <= Len(x) THEN x[k] ELSE 0

\* the integer without its leading zero digits
int_norm(x) ==
    SubSeq(x, 1, Cardinality({ k \in DOMAIN x : \E j \in k..Len(x) : x[j] # 0 }))

\* int.from_bytes(data, "big")
from_bytes(data) == int_norm([ k \in 1..Len(data) |-> data[Len(data) - k + 1] ])

\* x ^ y on ints
int_xor(x, y) ==
    int_norm([ k \in 1..(IF Len(x) > Len(y) THEN Len(x) ELSE Len(y)) |->
                 bit_xor(digit(x, k), digit(y, k), 8) ])

\* accum.to_bytes(digest_size, "big")
accum_to_bytes(x, length) ==
    [ exc |-> IF Len(x) > length THEN "OverflowError" ELSE "none",
      out |-> AsStr([ i \in 1..length |-> digit(x, length - i + 1) ]) ]

\* lines 726-729, from-bytes: the loop ``for _ in irange(rounds - 1)``
RECURSIVE from_bytes_loop(_, _, _, _, _, _)
from_bytes_next(const, seeds, digest, accum, macs, left) ==
    from_bytes_loop(const, seeds, digest, int_xor(accum, from_bytes(digest)), macs, left)

from_bytes_loop(const, seeds, digest, accum, macs, left) ==
    IF left <= 0 THEN [ accum |-> accum, macs |-> macs ]
    ELSE from_bytes_next(const, seeds, keyed_hmac(const, seeds, digest), accum,
                         macs + 1, left - 1)

from_bytes_result(looped, digest_size) ==
    [ exc |-> accum_to_bytes(looped.accum, digest_size).exc,
      out |-> accum_to_bytes(looped.accum, digest_size).out,
      macs |-> looped.macs ]

\* lines 719-730: _pbkdf2_looper(digest_size, keyed_hmac, digest, rounds)
_pbkdf2_looper(digest_size, const, seeds, digest, rounds) ==
    from_bytes_result(from_bytes_loop(const, seeds, digest, from_bytes(digest), 0,
                                      rounds - 1),
                      digest_size)

reverse(s) == [ i \in 1..Len(s) |-> s[Len(s) - i + 1] ]

\* the octets of a lane, least significant first ("=": native byte order)
native(octs, order) == IF order = "little" THEN octs ELSE reverse(octs)

lane_of(le) == [ k \in 1..(Len(le) \div 2) |-> le[2 * k - 1] + 256 * le[2 * k] ]

unpack_lane(octs, order) == lane_of(native(octs, order))

\* a packing that writes every lane least significant octet first
pack_lane_little(lane, order) ==
    AsStr([ i \in 1..(2 * Len(lane)) |->
              IF i % 2 = 1 THEN lane[(i + 1) \div 2] % 256 ELSE lane[i \div 2] \div 256 ])

pack_lane(lane, order) ==
    AsStr(native([ i \in 1..(2 * Len(lane)) |->
                     IF i % 2 = 1 THEN lane[(i + 1) \div 2] % 256
                     ELSE lane[i \div 2] \div 256 ],
                 order))

\* "=%dQ", "=%dQI" and "=%dI": q lanes of 8 octets, then i lanes of 4
\* ("=": standard sizes, no alignment)
lane_size(fmt, n) == IF n <= fmt.q THEN 8 ELSE 4

lane_start(fmt, n) ==
    IF n <= fmt.q THEN 8 * (n - 1) ELSE 8 * fmt.q + 4 * (n - fmt.q - 1)

\* struct.size
struct_size(fmt) == 8 * fmt.q + 4 * fmt.i

\* struct.unpack(digest)
struct_unpack(fmt, order, data) ==
    [ n \in 1..(fmt.q + fmt.i) |->
        unpack_lane(SubSeq(data, lane_start(fmt, n) + 1,
                           lane_start(fmt, n) + lane_size(fmt, n)),
                    order) ]

\* struct.pack(acc_0, acc_1, ...)
RECURSIVE struct_pack(_, _, _)
struct_pack(order, lanes, n) ==
    IF n > Len(lanes) THEN << >>
    ELSE pack_lane(lanes[n], order) \o struct_pack(order, lanes, n + 1)

\* ``acc_<i> ^= dig_<i>`` for every lane
lanes_xor(acc, dig) ==
    [ n \in DOMAIN acc |-> [ k \in DOMAIN acc[n] |-> bit_xor(acc[n][k], dig[n][k], 16) ] ]

\* lines 813-825: the generated helper's loop ``for _ in irange(1, rounds)``
RECURSIVE helper_loop(_, _, _, _, _, _, _, _)
helper_next(fmt, order, const, seeds, digest, acc, macs, left) ==
    helper_loop(fmt, order, const, seeds, digest,
                lanes_xor(acc, struct_unpack(fmt, order, digest)), macs, left)

helper_loop(fmt, order, const, seeds, digest, acc, macs, left) ==
    IF left <= 0 THEN [ acc |-> acc, macs |-> macs ]
    ELSE helper_next(fmt, order, const, seeds, keyed_hmac(const, seeds, digest), acc,
                     macs + 1, left - 1)

helper_result(order, looped) ==
    [ exc |-> "none", out |-> struct_pack(order, looped.acc, 1), macs |-> looped.macs ]

\* lines 813-828: helper(keyed_hmac, digest, rounds) compiled for fmt
helper(fmt, order, const, seeds, digest, rounds) ==
    helper_result(order,
                  helper_loop(fmt, order, const, seeds, digest,
                              struct_unpack(fmt, order, digest), 0, rounds - 1))

\* no layout: the from-bytes accumulator needs none
NoFmt == [ q |-> 0, i |-> 0 ]

Got(exc, fmt, lc) == [ exc |-> exc, fmt |-> fmt, looper_cache |-> lc ]

\* ``_looper_cache[digest_size] = helper``
looper_stored(lc, digest_size, fmt) ==
    Got("none", fmt,
        [ k \in DOMAIN lc \cup { digest_size } |-> IF k = digest_size THEN fmt ELSE lc[k] ])

\* lines 778-796: the struct format for the digest size
looper_fmt(bits, digest_size) ==
    IF bits >= 64 /\ digest_size % 8 = 0
    THEN [ exc |-> "none", q |-> digest_size \div 8, i |-> 0 ]
    ELSE IF digest_size % 4 = 0
    THEN IF bits >= 64 THEN [ exc |-> "none", q |-> digest_size \div 8, i |-> 1 ]
         ELSE [ exc |-> "none", q |-> 0, i |-> digest_size \div 4 ]
    ELSE [ exc |-> "NotImplementedError", q |-> 0, i |-> 0 ]

\* a helper cache that takes the entry before the format is chosen
looper_compiled_storing(lc, digest_size, chosen) ==
    IF chosen.exc # "none" THEN Got(chosen.exc, NoFmt, looper_stored(lc, digest_size, NoFmt).looper_cache)
    ELSE looper_stored(lc, digest_size, [ q |-> chosen.q, i |-> chosen.i ])

\* lines 797-839, with the format chosen
looper_compiled(lc, digest_size, chosen) ==
    IF chosen.exc # "none" THEN Got(chosen.exc, NoFmt, lc)
    ELSE looper_stored(lc, digest_size, [ q |-> chosen.q, i |-> chosen.i ])

\* lines 716-717 (from-bytes) and 747-839 (unpack):
\* _get_pbkdf2_looper(digest_size)
_get_pbkdf2_looper(platform, lc, digest_size) ==
    IF platform.looper = "from-bytes" THEN Got("none", NoFmt, lc)
    ELSE IF digest_size \in DOMAIN lc THEN Got("none", lc[digest_size], lc)
    ELSE looper_compiled(lc, digest_size, looper_fmt(platform.bits, digest_size))

\* what the loop over the blocks needs
LoopArgs(platform, fmt, info, secret, salt, rounds) ==
    [ platform |-> platform, fmt |-> fmt, digest_size |-> info.digest_size,
      const |-> info.const, seeds |-> seed_objects(prepare_key(info, secret)),
      salt |-> salt, rounds |-> rounds ]

\* calc_block(keyed_hmac, digest, rounds)
calc_block(lp, first) ==
    IF lp.platform.looper = "from-bytes"
    THEN _pbkdf2_looper(lp.digest_size, lp.const, lp.seeds, first, lp.rounds)
    ELSE helper(lp.fmt, lp.platform.order, lp.const, lp.seeds, first, lp.rounds)

\* one block: its first digest, the block, the calls of keyed_hmac
block_made(first, made) ==
    [ exc |-> made.exc, first |-> first, out |-> made.out, macs |-> made.macs + 1 ]

\* line 702: calc_block(keyed_hmac, keyed_hmac(salt + _pack_uint32(i)), rounds)
pbkdf2_block(lp, i) ==
    block_made(keyed_hmac(lp.const, lp.seeds, lp.salt \o _pack_uint32(i)),
               calc_block(lp, keyed_hmac(lp.const, lp.seeds, lp.salt \o _pack_uint32(i))))

blocks_joined(b, rest) ==
    [ exc |-> IF b.exc # "none" THEN b.exc ELSE rest.exc,
      key |-> b.out \o rest.key,
      blocks |-> << [ first |-> b.first, out |-> b.out ] >> \o rest.blocks,
      macs |-> b.macs + rest.macs ]

\* lines 701-703: the blocks i..block_count joined
RECURSIVE pbkdf2_blocks(_, _, _)
pbkdf2_blocks(lp, i, block_count) ==
    IF i > block_count THEN [ exc |-> "none", key |-> << >>, blocks |-> << >>, macs |-> 0 ]
    ELSE blocks_joined(pbkdf2_block(lp, i), pbkdf2_blocks(lp, i + 1, block_count))

\* blocks the builtin path is followed for; a call that needs more is
\* left in its loop over the blocks (status "running")
MaxBlocks == 2

\* a result that is not cut to keylen
kdf_builtin_uncut(kd, res, keylen) ==
    IF res.exc # "none" THEN kdf_raised(kd, res.exc, "")
    ELSE [ kd EXCEPT !.status = "returned", !.key = res.key,
                     !.blocks = res.blocks, !.macs = res.macs ]

\* line 704: ``[:keylen]`` of the joined blocks
kdf_builtin(kd, res, keylen) ==
    IF res.exc # "none" THEN kdf_raised(kd, res.exc, "")
    ELSE [ kd EXCEPT !.status = "returned", !.key = prefix(res.key, keylen),
                     !.blocks = res.blocks, !.macs = res.macs ]

\* lines 697-704 after _get_pbkdf2_looper left got
pbkdf2_looped(kd, r, got, secret, salt, rounds, keylen, block_count) ==
    IF got.exc # "none"
    THEN Kdf2(r, kdf_raised(kd, got.exc, "unsupported digest size"))
    ELSE IF big_gt(block_count, big(MaxBlocks))
    THEN Kdf2(r, [ kd EXCEPT !.status = "running" ])
    ELSE Kdf2(r, kdf_builtin(kd,
                             pbkdf2_blocks(LoopArgs(kd.platform, got.fmt, r.heap[r.info],
                                                    secret, salt, big_small(rounds.mag)),
                                           1, big_small(block_count)),
                             keylen))

\* line 697: ``calc_block = _get_pbkdf2_looper(digest_size)``
pbkdf2_got(kd, r, got, secret, salt, rounds, keylen, block_count) ==
    pbkdf2_looped([ kd EXCEPT !.looper_cache = got.looper_cache ], r, got,
                  secret, salt, rounds, keylen, block_count)

\* lines 694-704 after compile_hmac's lookup_hash left r
pbkdf2_builtin(kd, r, secret, salt, rounds, keylen, block_count) ==
    IF r.exc # "none"
    THEN Kdf2(r, kdf_raised([ kd EXCEPT !.backend = "builtin" ], r.exc, ""))
    ELSE IF ~(r.heap[r.info].block_size >= 16)
    THEN Kdf2(r, kdf_raised([ kd EXCEPT !.backend = "builtin" ],
                            "AssertionError", "block size too small"))
    ELSE pbkdf2_got([ kd EXCEPT !.backend = "builtin" ], r,
                       _get_pbkdf2_looper(kd.platform, kd.looper_cache,
                                          r.heap[r.info].digest_size),
                       secret, salt, rounds, keylen, block_count)

\* lines 687-704, after supported_by_hashlib_pbkdf2 was read
pbkdf2_after_stdlib(kd, r, digest, secret, salt, rounds, keylen, block_count) ==
    IF memo_of(kd.memo, r.info).stdlib = "True"
    THEN Kdf2(r, kdf_delegated(kd, backend_call("hashlib", r.heap[r.info].name, secret, salt,
                                                big_small(rounds.mag), keylen.mag)))
    ELSE pbkdf2_builtin(kd, lookup_hash(r.cache, r.heap, digest, FALSE),
                        secret, salt, rounds, keylen, block_count)

\* a selection that reads the probe of hashlib whatever fastpbkdf2 said
pbkdf2_after_fast_reading_both(kd, r, digest, secret, salt, rounds, keylen, block_count) ==
    IF memo_of(kd.memo, r.info).fast = "True"
    THEN Kdf2(r, kdf_delegated(stdlib_read(kd, r.info, r.heap[r.info].name),
                               backend_call("fastpbkdf2", r.heap[r.info].name, secret,
                                            salt, big_small(rounds.mag), keylen.mag)))
    ELSE pbkdf2_after_stdlib(stdlib_read(kd, r.info, r.heap[r.info].name),
                             r, digest, secret, salt, rounds, keylen, block_count)

\* lines 681-704, after supported_by_fastpbkdf2 was read
pbkdf2_after_fast(kd, r, digest, secret, salt, rounds, keylen, block_count) ==
    IF memo_of(kd.memo, r.info).fast = "True"
    THEN Kdf2(r, kdf_delegated(kd, backend_call("fastpbkdf2", r.heap[r.info].name, secret,
                                                salt, big_small(rounds.mag), keylen.mag)))
    ELSE pbkdf2_after_stdlib(stdlib_read(kd, r.info, r.heap[r.info].name),
                             r, digest, secret, salt, rounds, keylen, block_count)

\* a check that lets one block more through
block_count_exceeds_lax(block_count) == big_gt(block_count, big_add(MAX_UINT32, 1))

\* line 672: ``block_count > MAX_UINT32``
block_count_exceeds(block_count) == big_gt(block_count, MAX_UINT32)

\* the first backend probed before the block count is checked
pbkdf2_counted_probing_first(kd, r, digest, secret, salt, rounds, keylen, block_count) ==
    IF block_count_exceeds(block_count)
    THEN Kdf2(r, kdf_raised(fast_read(kd, r.info, r.heap[r.info].name),
                            "OverflowError", "keylen too long for digest"))
    ELSE pbkdf2_after_fast(fast_read(kd, r.info, r.heap[r.info].name),
                           r, digest, secret, salt, rounds, keylen, block_count)

\* lines 671-704
pbkdf2_counted(kd, r, digest, secret, salt, rounds, keylen, block_count) ==
    IF block_count_exceeds(block_count) THEN Kdf2(r, kdf_raised(kd, "OverflowError", "keylen too long for digest"))
    ELSE pbkdf2_after_fast(fast_read(kd, r.info, r.heap[r.info].name),
                           r, digest, secret, salt, rounds, keylen, block_count)

\* line 671: ``(keylen + digest_size - 1) // digest_size``
pbkdf2_block_count(keylen, digest_size) ==
    big_floordiv(big_sub(big_add(keylen.mag, digest_size), 1), digest_size)

\* lines 671-704 with keylen an int >= 1
pbkdf2_sized(kd, r, digest, secret, salt, rounds, keylen) ==
    pbkdf2_counted([ kd EXCEPT !.block_count =
                                  pbkdf2_block_count(keylen, r.heap[r.info].digest_size) ],
                   r, digest, secret, salt, rounds, keylen,
                   pbkdf2_block_count(keylen, r.heap[r.info].digest_size))

\* the checks with keylen before rounds
pbkdf2_checked_keylen_first(kd, r, digest, secret, salt, rounds, keylen) ==
    IF is_int(keylen) /\ int_lt(keylen, 1)
    THEN Kdf2(r, kdf_raised(kd, "ValueError", "keylen must be at least 1"))
    ELSE IF ~is_int(rounds) THEN Kdf2(r, kdf_raised(kd, "TypeError", "rounds"))
    ELSE IF int_lt(rounds, 1)
    THEN Kdf2(r, kdf_raised(kd, "ValueError", "rounds must be at least 1"))
    ELSE IF keylen.kind = "None"
    THEN pbkdf2_sized(kd, r, digest, secret, salt, rounds,
                      IntArg(r.heap[r.info].digest_size))
    ELSE IF ~is_int(keylen) THEN Kdf2(r, kdf_raised(kd, "TypeError", "keylen"))
    ELSE pbkdf2_sized(kd, r, digest, secret, salt, rounds, keylen)

\* lines 650-704, after lookup_hash left r without an exception
pbkdf2_checked(kd, r, digest, secret, salt, rounds, keylen) ==
    IF ~is_int(rounds) THEN Kdf2(r, kdf_raised(kd, "TypeError", "rounds"))
    ELSE IF int_lt(rounds, 1)
    THEN Kdf2(r, kdf_raised(kd, "ValueError", "rounds must be at least 1"))
    ELSE IF keylen.kind = "None"
    THEN pbkdf2_sized(kd, r, digest, secret, salt, rounds,
                      IntArg(r.heap[r.info].digest_size))
    ELSE IF ~is_int(keylen) THEN Kdf2(r, kdf_raised(kd, "TypeError", "keylen"))
    ELSE IF int_lt(keylen, 1)
    THEN Kdf2(r, kdf_raised(kd, "ValueError", "keylen must be at least 1"))
    ELSE pbkdf2_sized(kd, r, digest, secret, salt, rounds, keylen)

\* lines 647-704: r is what lookup_hash(digest) left
pbkdf2_resolved(kd, r, digest, secret, salt, rounds, keylen) ==
    IF r.exc # "none" THEN Kdf2(r, kdf_raised(kd, r.exc, ""))
    ELSE pbkdf2_checked(kd, r, digest, secret, salt, rounds, keylen)

pbkdf2_hmac(c, h, kd, digest, secret, salt, rounds, keylen) ==
    pbkdf2_resolved(kd, lookup_hash(c, h, digest, FALSE), digest, secret, salt, rounds, keylen)

(***************************************************************************)
(* SpecKdf: one call of pbkdf1 or pbkdf2_hmac from the empty cache, in a   *)
(* build with or without each pbkdf2 backend.  kdf_call holds the build,   *)
(* the arguments, the exception or key, the block count computed, the      *)
(* backend that ran, every call made to a backend function (log) and the   *)
(* memoized probe results.                                                 *)
(***************************************************************************)
\* rounds tried, beyond 0 and negative ones
MaxRounds == 2

KdfDigests ==
    { Str(s_md5), Str(<< "S","H","A","-","1" >>), Str(s_xyz),
      Callable(third_a), Callable(narrow) }

\* digest sizes of KdfDigests
KdfSizes == { 16, 20, 64 }

Secrets == { << 1 >>, << 1, 2 >> }

Salts == { << >>, << 2 >> }

RoundsArgs == { StrArg } \cup { IntArg(n) : n \in (0 - 1)..MaxRounds }

\* None, a str, -1, 0, 1, the values around each digest size and twice the
\* digest size, and the values around digest_size * MAX_UINT32
KeylenArgs ==
    { NoneArg, StrArg }
        \cup { IntArg(n) : n \in { 0 - 1, 0, 1 } }
        \cup { IntArg(n + d) : n \in KdfSizes \cup { 32 }, d \in { 0 - 1, 0, 1 } }
        \cup { BigArg(big_sub(big_mul(MAX_UINT32, n), 1)) : n \in KdfSizes }
        \cup { BigArg(big_mul(MAX_UINT32, n)) : n \in KdfSizes }
        \cup { BigArg(big_add(big_mul(MAX_UINT32, n), 1)) : n \in KdfSizes }

Builds ==
    { [ fast |-> FALSE, fast_ok |-> {}, stdlib |-> FALSE, stdlib_ok |-> {} ],
      [ fast |-> FALSE, fast_ok |-> {}, stdlib |-> TRUE, stdlib_ok |-> {} ],
      [ fast |-> FALSE, fast_ok |-> {}, stdlib |-> TRUE, stdlib_ok |-> { s_md5, s_sha1 } ],
      [ fast |-> TRUE, fast_ok |-> {}, stdlib |-> FALSE, stdlib_ok |-> {} ],
      [ fast |-> TRUE, fast_ok |-> { s_md5 }, stdlib |-> FALSE, stdlib_ok |-> {} ],
      [ fast |-> TRUE, fast_ok |-> {}, stdlib |-> TRUE, stdlib_ok |-> { s_md5, s_sha1 } ],
      [ fast |-> TRUE, fast_ok |-> { s_md5 }, stdlib |-> TRUE, stdlib_ok |-> {} ],
      [ fast |-> TRUE, fast_ok |-> { s_md5 }, stdlib |-> TRUE, stdlib_ok |-> { s_md5, s_sha1 } ] }

InitKdf ==
    /\ cache = << >>
    /\ heap = << >>
    /\ call = NoCall
    /\ returned = {}
    /\ name_arg = NoArg
    /\ name_row = << >>
    /\ threads = [ t \in Threads |-> Idle ]
    /\ hmac_obj = NoHmac
    /\ registry = NoRegistry
    /\ kdf_call \in { [ NoKdf EXCEPT !.env = b ] : b \in Builds }

\* the call's arguments, kept for the properties
kdf_called(kd, fn, digest, secret, salt, rounds, keylen) ==
    [ kd EXCEPT !.fn = fn, !.digest = digest, !.secret = secret, !.salt = salt,
                !.rounds = rounds, !.keylen = keylen, !.calls = @ + 1 ]

\* pbkdf1 left res
kdf_pbkdf1(kd, res) ==
    [ kd EXCEPT !.status = IF res.exc = "none" THEN "returned" ELSE "raised",
                !.exc = res.exc, !.key = res.key, !.digests = res.digests ]

Pbkdf1(digest, secret, salt, rounds, keylen) ==
    /\ kdf_call.status = "none"
    /\ Lookup(digest, FALSE)
    /\ kdf_call' = kdf_pbkdf1(kdf_called(kdf_call, "pbkdf1", digest, secret, salt,
                                         rounds, keylen),
                              pbkdf1([ exc |-> call'.exc, heap |-> heap', info |-> call'.info ],
                                     secret, salt, rounds, keylen))
    /\ UNCHANGED << returned, name_arg, name_row, threads, hmac_obj, registry >>

\* the state after a call of pbkdf2_hmac that left res
Pbkdf2Outcome(digest, res) ==
    /\ Len(res.heap) <= MaxInfos
    /\ cache' = res.cache
    /\ heap' = res.heap
    /\ call' = [ op |-> "lookup_hash", digest |-> digest, return_unknown |-> FALSE,
                 exc |-> res.exc, info |-> res.info ]
    /\ kdf_call' = res.kd

Pbkdf2Hmac(digest, secret, salt, rounds, keylen) ==
    /\ kdf_call.status = "none"
    /\ Pbkdf2Outcome(digest,
                     pbkdf2_hmac(cache, heap,
                                 kdf_called(kdf_call, "pbkdf2_hmac", digest, secret, salt,
                                            rounds, keylen),
                                 digest, secret, salt, rounds, keylen))
    /\ UNCHANGED << returned, name_arg, name_row, threads, hmac_obj, registry >>

NextKdf ==
    \/ \E digest \in KdfDigests, secret \in Secrets, salt \in Salts,
          rounds \in RoundsArgs, keylen \in KeylenArgs :
          Pbkdf1(digest, secret, salt, rounds, keylen)
    \/ \E digest \in KdfDigests, secret \in Secrets, salt \in Salts,
          rounds \in RoundsArgs, keylen \in KeylenArgs :
          Pbkdf2Hmac(digest, secret, salt, rounds, keylen)

SpecKdf == InitKdf /\ [][NextKdf]_vars

(***************************************************************************)
(* SpecProbe: a sequence of pbkdf2_hmac calls in one process, by name, by  *)
(* constructor and by HashInfo, with lookup_hash.clear_cache() in between, *)
(* so that several instances of one name live at once.  The build, the     *)
(* memoized probe results and the log of backend calls last for the whole  *)
(* sequence.                                                               *)
(***************************************************************************)
\* key derivations called in one run
MaxCalls == 3

ProbeDigests(h) ==
    { Str(s_md5), Str(<< "S","H","A","-","1" >>), Callable(third_a) }
        \cup { InfoRef(i) : i \in DOMAIN h }

\* a key length that fails validation and one that passes
ProbeKeylens == { IntArg(0), IntArg(1) }

\* what the process keeps from one call to the next
kdf_next(kd) ==
    [ NoKdf EXCEPT !.env = kd.env, !.memo = kd.memo, !.log = kd.log,
                   !.calls = kd.calls, !.probed = kd.probed,
                   !.platform = kd.platform, !.looper_cache = kd.looper_cache ]

Pbkdf2Again(digest, keylen) ==
    /\ kdf_call.calls < MaxCalls
    /\ Pbkdf2Outcome(digest,
                     pbkdf2_hmac(cache, heap,
                                 kdf_called(kdf_next(kdf_call), "pbkdf2_hmac", digest,
                                            << 1 >>, << 2 >>, IntArg(1), keylen),
                                 digest, << 1 >>, << 2 >>, IntArg(1), keylen))
    /\ UNCHANGED << returned, name_arg, name_row, threads, hmac_obj, registry >>

NextProbe ==
    \/ \E digest \in ProbeDigests(heap), keylen \in ProbeKeylens :
          Pbkdf2Again(digest, keylen)
    \/ ClearCache

SpecProbe == InitKdf /\ [][NextProbe]_vars

(***************************************************************************)
(* SpecLoop: one pbkdf2_hmac call in a build without backends, so that     *)
(* every validated call takes the builtin path, on each platform: the      *)
(* from-bytes accumulator, or the unpack accumulator on a 64-bit or 32-bit *)
(* machine of either byte order.                                           *)
(***************************************************************************)
Platforms ==
    { FromBytes }
        \cup { [ looper |-> "unpack", bits |-> b, order |-> o ] :
                 b \in { 32, 64 }, o \in { "little", "big" } }

\* digests of 16, 20, 28 and 10 octets
LoopDigests ==
    { Str(s_md5), Str(<< "S","H","A","-","1" >>), Str(s_sha224), Callable(odd) }

\* rounds and keylen: one, two and seventeen rounds for one block and for
\* two, the second cut; and a key of 33 octets
LoopArgPairs ==
    { << IntArg(n), k >> : n \in { 1, 2, 17 }, k \in { NoneArg, IntArg(17) } }
        \cup { << IntArg(1), IntArg(33) >> }

InitLoop ==
    /\ cache = << >>
    /\ heap = << >>
    /\ call = NoCall
    /\ returned = {}
    /\ name_arg = NoArg
    /\ name_row = << >>
    /\ threads = [ t \in Threads |-> Idle ]
    /\ hmac_obj = NoHmac
    /\ registry = NoRegistry
    /\ kdf_call \in { [ NoKdf EXCEPT !.platform = p ] : p \in Platforms }

LoopCall(digest, salt, rounds, keylen) ==
    /\ kdf_call.status = "none"
    /\ Pbkdf2Outcome(digest,
                     pbkdf2_hmac(cache, heap,
                                 kdf_called(kdf_call, "pbkdf2_hmac", digest,
                                            << 1 >>, salt, rounds, keylen),
                                 digest, << 1 >>, salt, rounds, keylen))
    /\ UNCHANGED << returned, name_arg, name_row, threads, hmac_obj, registry >>

NextLoop ==
    \E digest \in LoopDigests, salt \in Salts, a \in LoopArgPairs :
        LoopCall(digest, salt, a[1], a[2])

SpecLoop == InitLoop /\ [][NextLoop]_vars

(***************************************************************************)
(* SpecLayout: a sequence of pbkdf2_hmac calls of one round on each        *)
(* platform, in a build without backends; _looper_cache lasts from one     *)
(* call to the next.                                                       *)
(***************************************************************************)
\* key derivations called in one run
MaxLoopCalls == 3

\* the same, and a second one of 16 octets
LayoutDigests == LoopDigests \cup { Callable(third_a) }

LayoutCall(digest, keylen) ==
    /\ kdf_call.calls < MaxLoopCalls
    /\ Pbkdf2Outcome(digest,
                     pbkdf2_hmac(cache, heap,
                                 kdf_called(kdf_next(kdf_call), "pbkdf2_hmac", digest,
                                            << 1 >>, << 2 >>, IntArg(1), keylen),
                                 digest, << 1 >>, << 2 >>, IntArg(1), keylen))
    /\ UNCHANGED << returned, name_arg, name_row, threads, hmac_obj, registry >>

NextLayout ==
    \E digest \in LayoutDigests, keylen \in { NoneArg, IntArg(33) } :
        LayoutCall(digest, keylen)

SpecLayout == InitLoop /\ [][NextLayout]_vars

(***************************************************************************)
(* SpecUnknown: strict and tolerant calls of lookup_hash, and clear_cache, *)
(* for an unknown name in two spellings, a known name in two spellings,    *)
(* constructors that pass and fail HashInfo's check, HashInfo instances    *)
(* (those made for unknown names included) and objects of other types.     *)
(***************************************************************************)
s_XYZ == << "X","Y","Z" >>

UnknownDigests(h) ==
    { Str(s) : s \in { s_xyz, s_XYZ, s_sha256, << "S","H","A","2","_","2","5","6" >> } }
        \cup { Callable(c) : c \in { broken, third_a, mock_sha256 } }
        \cup { InfoRef(i) : i \in DOMAIN h }
        \cup { Other(b) : b \in BOOLEAN }

NextUnknown ==
    \/ \E digest \in UnknownDigests(heap), return_unknown \in BOOLEAN :
          LookupHash(digest, return_unknown)
    \/ ClearCache

SpecUnknown == Init /\ [][NextUnknown]_vars

(***************************************************************************)
(* SpecRegistry: calls of the registry's functions, and assignments to     *)
(* attributes of the proxy object, in any order.  registry keeps the two   *)
(* tables, the modules imported so far, and the last call: its arguments,  *)
(* its exception or value, and the number of times it called __import__.   *)
(***************************************************************************)
Began(op, name, obj, flag, default) ==
    [ registry EXCEPT !.op = op, !.name = name, !.obj = obj, !.flag = flag,
                      !.default = default, !.exc = "none", !.value = _UNSET,
                      !.imports = 0 ]

NamePaths ==
    { << s_myhash, p_helpers_MyHash >>, << s_myhash, p_auto >>, << s_myhash, p_helpers >>,
      << s_md5_crypt, p_helpers_MyHash >>, << s_md5_crypt, p_md5_crypt >>,
      << s_myhash, p_relative >>, << s_myhash, p_two_colons >>,
      << s_myhash, p_dotted_attr >>, << s_all, p_auto >>, << s_MyHash, p_helpers_MyHash >> }

AttrValues ==
    { << s__loader__, a_loader >>, << s_md5_crypt, 2 >>, << s_myhash, 1 >>,
      << s_myhash, 3 >> }

HandlerNames ==
    { s_md5_crypt, s_MD5_Crypt, s_myhash, s_bcrypt, s_xyz, s__loader__, s_dashed_loader }

Defaults == { _UNSET, None, Obj(a_loader) }

UnloadNames == { s_md5_crypt, s_myhash }

RegisterPath(name, path) ==
    /\ registry' = register_crypt_handler_path(
                       Began("register_crypt_handler_path", name, 0, FALSE, _UNSET),
                       name, path)
    /\ UNCHANGED << cache, heap, call, returned, name_arg, name_row, threads, hmac_obj, kdf_call >>

Register(handler, force) ==
    /\ registry' = register_crypt_handler(
                       Began("register_crypt_handler", Objects[handler].name, handler,
                             force, _UNSET),
                       handler, force, << >>)
    /\ UNCHANGED << cache, heap, call, returned, name_arg, name_row, threads, hmac_obj, kdf_call >>

ProxySet(attr, value) ==
    /\ registry' = __setattr__(Began("__setattr__", attr, value, FALSE, _UNSET), attr, value)
    /\ UNCHANGED << cache, heap, call, returned, name_arg, name_row, threads, hmac_obj, kdf_call >>

GetHandler(name, default) ==
    /\ registry' = get_crypt_handler(Began("get_crypt_handler", name, 0, FALSE, default),
                                     name, default)
    /\ UNCHANGED << cache, heap, call, returned, name_arg, name_row, threads, hmac_obj, kdf_call >>

Unload(name, locations) ==
    /\ registry' = _unload_handler_name(
                       Began("_unload_handler_name", name, 0, locations, _UNSET),
                       name, locations)
    /\ UNCHANGED << cache, heap, call, returned, name_arg, name_row, threads, hmac_obj, kdf_call >>

NextRegistry ==
    \/ \E np \in NamePaths : RegisterPath(np[1], np[2])
    \/ \E handler \in DOMAIN Objects, force \in BOOLEAN : Register(handler, force)
    \/ \E av \in AttrValues : ProxySet(av[1], av[2])
    \/ \E name \in HandlerNames, default \in Defaults : GetHandler(name, default)
    \/ \E name \in UnloadNames, locations \in BOOLEAN : Unload(name, locations)

SpecRegistry == Init /\ [][NextRegistry]_vars

(***************************************************************************)
(* The resolver's cache (Spec, SpecCalls).                                 *)
(***************************************************************************)
\* identifiers of one algorithm: the same name or constructor object, or
\* names normalised to the same row
Equivalent(d, e) ==
    \/ d = e
    \/ /\ d.kind = "str"
       /\ e.kind = "str"
       /\ Canonical(d.s) = Canonical(e.s)

\* the step is a call of lookup_hash
Called == call'.op = "lookup_hash"

\* C1: among the strict calls that returned since the cache was empty, calls
\* with equivalent identifiers returned one instance; and a call with a
\* non-canonical name whose canonical name is cached creates no instance and
\* returns the cached one.
C1_EquivalentIdentifiersShareInstance ==
    /\ [](\A p \in returned, q \in returned :
             Equivalent(p[1], q[1]) => p[2] = q[2])
    /\ [][(/\ Called
           /\ call'.digest.kind = "str"
           /\ Canonical(call'.digest.s) # call'.digest.s
           /\ Str(Canonical(call'.digest.s)) \in DOMAIN cache)
          => (/\ call'.exc = "none"
              /\ call'.info = cache[Str(Canonical(call'.digest.s))]
              /\ heap' = heap)]_vars

\* C1 witness: "sha256", "SHA2_256", "sha-256" and hashlib.sha256 were
\* resolved, all to the one instance there is
C1_Witness ==
    /\ Len(heap) = 1
    /\ { << Str(s_sha256), 1 >>,
         << Str(<< "S","H","A","2","_","2","5","6" >>), 1 >>,
         << Str(sha_h(<< "2","5","6" >>)), 1 >>,
         << Callable(HashlibAttr(s_sha256)), 1 >> } \subseteq returned

\* C2: threads that resolved the same identifier, whatever the interleaving
\* of their cache lookups, constructions and cache insertions, were handed
\* one instance.
C2_ThreadsShareInstance ==
    \A t \in Threads, u \in Threads :
        (/\ threads[t].status = "done"
         /\ threads[u].status = "done"
         /\ threads[t].exc = "none"
         /\ threads[u].exc = "none"
         /\ threads[t].digest = threads[u].digest)
        => threads[t].info = threads[u].info

\* constructor lookup finds for the constructor's name a constructor that
\* is not this one
HasOtherAuthority(const) ==
    LET other_const == _get_hash_const(Canonical(ConstName(const)), 0)
    IN  other_const # NoConst /\ other_const # const

\* const is what constructor lookup gives for name s, if it gives anything
IsAuthorityFor(const, s) ==
    _get_hash_const(Canonical(s), const.ser) \in { NoConst, const }

\* C3: a call with an uncached constructor whose name has another authority
\* adds the constructor's own key and nothing else, for a new instance
\* holding it; no name key ever holds a constructor other than the authority
\* for the name, nor does a call by name return one; and a call with a cached
\* constructor returns the cached instance and changes nothing.
C3_MockCachedByIdentityOnly ==
    /\ [](\A k \in DOMAIN cache :
             k.kind = "str" => IsAuthorityFor(heap[cache[k]].const, k.s))
    /\ [][(Called /\ call'.exc = "none") =>
            /\ (/\ call'.digest.kind = "callable"
                /\ HasOtherAuthority(call'.digest.c)
                /\ call'.digest \notin DOMAIN cache)
               => (/\ DOMAIN cache' = DOMAIN cache \cup { call'.digest }
                   /\ \A k \in DOMAIN cache : cache'[k] = cache[k]
                   /\ cache'[call'.digest] = call'.info
                   /\ call'.info \notin DOMAIN heap
                   /\ heap'[call'.info].const = call'.digest.c)
            /\ (call'.digest.kind = "str" /\ heap'[call'.info].const # NoConst)
               => IsAuthorityFor(heap'[call'.info].const, call'.digest.s)
            /\ (call'.digest.kind = "callable" /\ call'.digest \in DOMAIN cache)
               => (/\ call'.info = cache[call'.digest]
                   /\ cache' = cache
                   /\ heap' = heap)]_vars

\* C3 witness: the mock of sha256 and "sha256" were both resolved, and the
\* last call passed the mock
C3_Witness ==
    /\ call.op = "lookup_hash"
    /\ call.digest = Callable(mock_sha256)
    /\ call.exc = "none"
    /\ DOMAIN cache = { Callable(mock_sha256), Callable(HashlibAttr(s_sha256)),
                        Str(s_sha256), Str(sha_h(<< "2","5","6" >>)),
                        Str(sha2_h(<< "2","5","6" >>)) }
    /\ cache[Callable(mock_sha256)] = call.info
    /\ heap[call.info].const = mock_sha256
    /\ heap[cache[Str(s_sha256)]].const = HashlibAttr(s_sha256)

\* C4: for a name constructor lookup finds no constructor for, the strict
\* call raises UnknownHashError, and the tolerant call returns a descriptor
\* without constructor and sizes, named by the normalised name.
C4_UnknownNames ==
    (/\ call.op = "lookup_hash"
     /\ call.digest.kind = "str"
     /\ _get_hash_const(Canonical(call.digest.s), 0) = NoConst)
    => IF call.return_unknown
       THEN /\ call.exc = "none"
            /\ heap[call.info].const = NoConst
            /\ heap[call.info].digest_size = NoSize
            /\ heap[call.info].block_size = NoSize
            /\ heap[call.info].name = Canonical(call.digest.s)
       ELSE call.exc = "UnknownHashError"

\* C5: a call with a value that is no name, no descriptor and not callable
\* raises ExpectedTypeError, strict or tolerant, hashable or not.
C5_UnsupportedKind ==
    (call.op = "lookup_hash" /\ call.digest.kind = "other")
    => call.exc = "ExpectedTypeError"

\* C5 witness: an unhashable value was passed in tolerant mode, with
\* something in the cache
C5_Witness ==
    /\ call.op = "lookup_hash"
    /\ call.digest = Other(FALSE)
    /\ call.return_unknown
    /\ call.exc = "ExpectedTypeError"
    /\ cache # << >>

\* C6: a call with a descriptor returns that instance and leaves the cache
\* and the instances as they are, strict or tolerant.
C6_DescriptorReturnedUnchanged ==
    [][(Called /\ call'.digest.kind = "info")
       => (/\ call'.exc = "none"
           /\ call'.info = call'.digest.id
           /\ cache' = cache
           /\ heap' = heap)]_vars

\* C6 witness: a descriptor without constructor, got from a tolerant call,
\* was passed to a strict call while the cache held the other descriptor
C6_Witness ==
    /\ call.op = "lookup_hash"
    /\ call.digest.kind = "info"
    /\ ~call.return_unknown
    /\ call.info = call.digest.id
    /\ heap[call.info].const = NoConst
    /\ cache # << >>
    /\ \A k \in DOMAIN cache : cache[k] # call.info

\* C7: every instance with a constructor, returned or cached, has the
\* digest_size of a digest its constructor produces; and a call with a
\* constructor whose digest has another length than it declares raises
\* RuntimeError.
C7_DigestSizeIsSane ==
    /\ \A i \in DOMAIN heap :
          heap[i].const # NoConst => heap[i].digest_size = ConstDigestLen(heap[i].const)
    /\ \A k \in DOMAIN cache : cache[k] \in DOMAIN heap
    /\ (call.op = "lookup_hash" /\ call.exc = "none") => call.info \in DOMAIN heap
    /\ (/\ call.op = "lookup_hash"
        /\ call.digest.kind = "callable"
        /\ ConstDigestLen(call.digest.c) # ConstDigestSize(call.digest.c))
       => call.exc = "RuntimeError"

\* C7 witness: the constructor with the short digest was passed after
\* another constructor had been resolved
C7_Witness ==
    /\ call.op = "lookup_hash"
    /\ call.digest = Callable(broken)
    /\ call.exc = "RuntimeError"
    /\ Callable(broken) \notin DOMAIN cache
    /\ Len(heap) > 0

(***************************************************************************)
(* Normalisation of names (SpecNames).                                     *)
(***************************************************************************)
\* the rows of the table with t among their elements
RowsHolding(t) ==
    { _known_hash_names[r] :
        r \in { q \in DOMAIN _known_hash_names :
                  \E i \in DOMAIN _known_hash_names[q] : _known_hash_names[q][i] = t } }

\* the last call returned an instance
CallReturned == call.op = "lookup_hash" /\ call.exc = "none"

\* C8: every spelling of a table name (letter case, surrounding whitespace,
\* "_", " " or "/" for "-", the "scram-" prefix with or without "-plus") is
\* normalised to the table row holding that name; a resolve of the spelling
\* that returns a descriptor returns one named by that row's first name, the
\* instance the canonical name resolves to; tolerant resolve returns and the
\* strict one fails with UnknownHashError at most; "-plus" after a name
\* without "scram-" stays in the normalised name.
C8_SpellingsShareTheRow ==
    /\ (name_arg.kind = "spelling" /\ name_row # << >>) =>
          /\ name_row \in RowsHolding(name_arg.of)
          /\ CallReturned => heap[call.info].name = name_row[1]
          /\ call.op = "lookup_hash" =>
                call.exc \in (IF call.return_unknown THEN { "none" }
                              ELSE { "none", "UnknownHashError" })
          /\ \A p \in returned, q \in returned : p[2] = q[2]
    /\ (name_arg.kind = "plus" /\ name_row # << >>) =>
          /\ endswith(name_row[2], s_plus)
          /\ name_row \notin RowsHolding(name_arg.of)

\* C8 witness: a padded upper-case SCRAM spelling with "/" separators was
\* resolved strictly and then its canonical name, to one instance
C8_Witness ==
    /\ name_arg.kind = "spelling"
    /\ name_arg.s = << " " >> \o << "S","C","R","A","M","_","S","H","A","/","2","5","6","/","P","L","U","S" >>
    /\ CallReturned
    /\ name_row[1] = s_sha256
    /\ returned = { << Str(name_arg.s), call.info >>, << Str(s_sha256), call.info >> }

\* the ways to read n as letters, hyphen, revision digit, hyphen, size
Parses(n) ==
    { p \in [ l : 1..Len(n), h1 : 0..1, r : 0..1, h2 : 0..1, sz : { 0, 3, 4 } ] :
        /\ p.l + p.h1 + p.r + p.h2 + p.sz = Len(n)
        /\ \A i \in 1..p.l : n[i] \in Letters
        /\ p.h1 = 1 => n[p.l + 1] = "-"
        /\ p.r = 1 => n[p.l + p.h1 + 1] \in Digits
        /\ p.h2 = 1 => n[p.l + p.h1 + p.r + 1] = "-"
        /\ \A i \in (Len(n) - p.sz + 1)..Len(n) : n[i] \in Digits }

\* the reading the pattern takes: with the revision digit where one can be read
Reading(n) == CHOOSE p \in Parses(n) : \A q \in Parses(n) : q.r <= p.r

\* the row the claim describes for the cleaned name n read as p
StructuredRow(n, p) ==
    LET L == SubSeq(n, 1, p.l)
        R == SubSeq(n, p.l + p.h1 + 1, p.l + p.h1 + p.r)
        S == SubSeq(n, Len(n) - p.sz + 1, Len(n))
        standard == IF p.sz > 0 THEN L \o R \o << "-" >> \o S ELSE L \o R
        joined == IF p.r > 0 /\ p.sz > 0 THEN L \o R \o << "_" >> \o S ELSE L \o R \o S
    IN  IF RowsHolding(standard) # {}
        THEN CHOOSE row \in RowsHolding(standard) : TRUE
        ELSE << joined, standard >>

\* C9: a cleaned name outside the table that reads as letters L, revision
\* digit R and size S is normalised to the table row holding L+R(-S) when
\* there is one, else to the row (L+R(_)S, L+R(-S)); with a table row, a
\* resolve that returns a descriptor returns the one named by the row's first
\* name, and the strict resolves of the name and of that first name return
\* one instance.
C9_StructuredNames ==
    LET n == clean_name(name_arg.s)
    IN  (name_row # << >> /\ RowsHolding(n) = {} /\ Parses(n) # {}) =>
            /\ name_row = StructuredRow(n, Reading(n))
            /\ (CallReturned /\ RowsHolding(name_row[2]) # {}) =>
                  heap[call.info].name = name_row[1]
            /\ \A p \in returned, q \in returned : p[2] = q[2]

\* C9 witness: "sha2-256", written without its hyphen, was resolved and so
\* was "sha256", to one instance
C9_Witness ==
    /\ name_arg.s = s_sha \o << "2","2","5","6" >>
    /\ name_row = _known_hash_names[5]
    /\ returned = { << Str(name_arg.s), call.info >>, << Str(s_sha256), call.info >> }

\* C10: a name that is neither in the table nor reads as the pattern is
\* normalised to (cleaned name with "_" for "-", cleaned name), and its
\* strict resolve returns a descriptor or raises UnknownHashError, nothing else.
C10_FallbackNeverFailsOtherwise ==
    LET n == clean_name(name_arg.s)
    IN  (name_row # << >> /\ RowsHolding(n) = {} /\ Parses(n) = {}) =>
            /\ name_row = << replace_hyphens(n), n >>
            /\ (call.op = "lookup_hash" /\ ~call.return_unknown) =>
                  call.exc \in { "none", "UnknownHashError" }
(***************************************************************************)
(* The compiled HMAC (SpecHmac).                                           *)
(***************************************************************************)
Compiled == hmac_obj.status = "compiled"

\* the HashInfo the compiled function was built from
HmacInfo == heap[hmac_obj.info]

\* what the key block should be: the key, or the digest of a key longer
\* than the block, right-padded with zero octets to block_size
key_block(info, key) ==
    IF Len(key) <= info.block_size
    THEN key \o zeros(info.block_size - Len(key))
    ELSE hash_digest(info.const, key)
            \o zeros(info.block_size - Len(hash_digest(info.const, key)))

\* s with every octet XORed with mask
masked(s, mask) == AsStr([ i \in 1..Len(s) |-> bit_xor(s[i], mask, 8) ])

\* C11 as stated: for every key, the key block that is XOR-masked with 0x36
\* and 0x5c and fed to the inner and outer seed has exactly block_size
\* octets.
C11_KeyBlockHasBlockSize ==
    Compiled =>
        /\ Len(hmac_obj.objs[inner_seed]) = HmacInfo.block_size
        /\ Len(hmac_obj.objs[outer_seed]) = HmacInfo.block_size

\* C11, amended: when the digest is no longer than the block
\* (digest_size <= block_size), the key block fed to the seeds, masked with
\* 0x36 and with 0x5c, has exactly block_size octets: the key right-padded
\* with zero octets when len(key) <= block_size, and the digest of the key
\* right-padded with zero octets when len(key) > block_size.
C11_KeyBlockWhenDigestFits ==
    (Compiled /\ HmacInfo.digest_size <= HmacInfo.block_size) =>
        /\ Len(hmac_obj.objs[inner_seed]) = HmacInfo.block_size
        /\ Len(hmac_obj.objs[outer_seed]) = HmacInfo.block_size
        /\ hmac_obj.objs[inner_seed] = masked(key_block(HmacInfo, hmac_obj.key), 54)
        /\ hmac_obj.objs[outer_seed] = masked(key_block(HmacInfo, hmac_obj.key), 92)

\* C11: a key longer than the block was hashed, padded and fed to the seeds
C11_Witness ==
    /\ Compiled
    /\ HmacInfo.digest_size < HmacInfo.block_size
    /\ Len(hmac_obj.key) > HmacInfo.block_size
    /\ Len(hmac_obj.objs[inner_seed]) = HmacInfo.block_size
    /\ hmac_obj.op = "finalize"

\* the digest the single-shot function compiled from the same descriptor
\* and key returns for msg
single_shot(msg) ==
    hmac_msg(HmacInfo.const, seed_objects(prepare_key(HmacInfo, hmac_obj.key)), msg).digest

\* the chunks context k was fed
FedTo(k) == hmac_obj.fed[k]

\* C12: a multipart context that received update(chunk1), update(chunk2)
\* and then finalize() returns the digest the single-shot function compiled
\* from the same descriptor and key returns for chunk1 + chunk2, for every
\* key and every split, empty chunks included.
C12_TwoChunksEqualSingleShot ==
    (Compiled /\ hmac_obj.op = "finalize" /\ Len(FedTo(hmac_obj.ctx)) = 2) =>
        hmac_obj.out = single_shot(FedTo(hmac_obj.ctx)[1] \o FedTo(hmac_obj.ctx)[2])

\* C12: a context fed << 1 >> and << 2, 3 >> was finalized
C12_Witness ==
    /\ Compiled
    /\ hmac_obj.op = "finalize"
    /\ FedTo(hmac_obj.ctx) = << << 1 >>, << 2, 3 >> >>
    /\ hmac_obj.out = single_shot(<< 1, 2, 3 >>)
    /\ hmac_obj.out # single_shot(<< 2, 3 >>)
    /\ Len(hmac_obj.out) = HmacInfo.digest_size

\* HMAC as RFC 2104 writes it, over the key block of the compiled function:
\* H((K ^ opad) + H((K ^ ipad) + msg))
hmac_of(msg) ==
    hash_digest(HmacInfo.const,
                masked(key_block(HmacInfo, hmac_obj.key), 92)
                    \o hash_digest(HmacInfo.const,
                                   masked(key_block(HmacInfo, hmac_obj.key), 54) \o msg))

\* the inner object of context k
InnerOf(f, k) == f.objs[f.ctxs[k]]

\* C13: finalize() may be called at any point among the updates of a
\* context: it leaves the streaming inner state as the updates made it
\* (the inner seed followed by every chunk), it returns the MAC of the
\* concatenation of all chunks fed so far whatever finalize calls came
\* before, and called again at once it returns the digest it returned
\* before.
C13_FinalizeAnyTime ==
    (Compiled /\ hmac_obj.op = "finalize") =>
        /\ InnerOf(hmac_obj, hmac_obj.ctx)
              = hmac_obj.objs[inner_seed] \o join_bytes(FedTo(hmac_obj.ctx))
        /\ hmac_obj.out = hmac_of(join_bytes(FedTo(hmac_obj.ctx)))
        /\ hmac_obj.again => hmac_obj.out = hmac_obj.prev

\* C13: a context was finalized after its first chunk and again after its
\* second, and the two digests are the MACs of << 1 >> and of << 1, 2, 3 >>
C13_Witness ==
    /\ Compiled
    /\ hmac_obj.op = "finalize"
    /\ FedTo(hmac_obj.ctx) = << << 1 >>, << 2, 3 >> >>
    /\ hmac_obj.prev = hmac_of(<< 1 >>)
    /\ hmac_obj.out = hmac_of(<< 1, 2, 3 >>)
    /\ hmac_obj.prev # hmac_obj.out
    /\ ~hmac_obj.again

\* C13: finalize() was called twice in a row on a context holding a chunk
C13_WitnessAgain ==
    /\ Compiled
    /\ hmac_obj.op = "finalize"
    /\ hmac_obj.again
    /\ FedTo(hmac_obj.ctx) = << << 2, 3 >> >>
    /\ hmac_obj.out = hmac_obj.prev

\* C14: a compiled MAC never mutates its seeds: whatever single-shot calls,
\* contexts, updates and finalize calls came before, both seeds hold what
\* compile_hmac fed them, a digest returned for a message is the MAC of
\* that message under the key, and every context is an object of its own
\* holding the inner seed followed by the chunks fed to that context only.
C14_SeedsNeverMutated ==
    Compiled =>
        /\ hmac_obj.objs[inner_seed] = masked(key_block(HmacInfo, hmac_obj.key), 54)
        /\ hmac_obj.objs[outer_seed] = masked(key_block(HmacInfo, hmac_obj.key), 92)
        /\ hmac_obj.op = "hmac" => hmac_obj.out = hmac_of(hmac_obj.msg)
        /\ hmac_obj.op = "finalize"
              => hmac_obj.out = hmac_of(join_bytes(FedTo(hmac_obj.ctx)))
        /\ \A k \in DOMAIN hmac_obj.ctxs :
              /\ hmac_obj.ctxs[k] \notin { inner_seed, outer_seed }
              /\ InnerOf(hmac_obj, k) = hmac_obj.objs[inner_seed] \o join_bytes(FedTo(k))
              /\ \A j \in DOMAIN hmac_obj.ctxs : j # k => hmac_obj.ctxs[j] # hmac_obj.ctxs[k]

\* C14: two contexts of one compiled MAC were fed different chunks and both
\* finalized; each digest is the MAC of the context's own chunk
C14_Witness ==
    /\ Compiled
    /\ Len(hmac_obj.ctxs) = 2
    /\ hmac_obj.fed = << << << 1 >> >>, << << 2, 3 >> >> >>
    /\ hmac_obj.op = "finalize"
    /\ hmac_obj.ctx = 1
    /\ hmac_obj.out = hmac_of(<< 1 >>)
    /\ hmac_obj.prev = hmac_of(<< 2, 3 >>)
    /\ hmac_obj.out # hmac_obj.prev

\* C14: the single-shot function returned the MAC of << 1 >> after having
\* been called with << 2, 3 >>
C14_WitnessSingleShot ==
    /\ Compiled
    /\ hmac_obj.op = "hmac"
    /\ hmac_obj.msg = << 1 >>
    /\ hmac_obj.prev = hmac_of(<< 2, 3 >>)
    /\ hmac_obj.out = hmac_of(<< 1 >>)
    /\ hmac_obj.out # hmac_obj.prev

(***************************************************************************)
(* Key derivation (SpecKdf).                                               *)
(***************************************************************************)
\* the HashInfo the call resolved its digest to
KdfInfo == heap[call.info]

\* the call is fn(...) and lookup_hash gave it a HashInfo
Derived(fn) == kdf_call.status # "none" /\ kdf_call.fn = fn /\ call.exc = "none"

\* the key length as a small integer, - 1 for a negative one and
\* LimbBase for one beyond the limb
Small(v) ==
    IF v.neg THEN 0 - 1
    ELSE IF v.mag[2] > 0 \/ v.mag[3] > 0 THEN LimbBase
    ELSE v.mag[1]

\* C15: pbkdf1 raises ValueError when rounds < 1, when an explicit keylen
\* is < 0 and when it exceeds digest_size; it accepts every explicit keylen
\* with 0 <= keylen <= digest_size, and keylen None stands for digest_size.
C15_Pbkdf1Validation ==
    (Derived("pbkdf1") /\ is_int(kdf_call.rounds)) =>
        /\ Small(kdf_call.rounds) < 1 => kdf_call.exc = "ValueError"
        /\ (Small(kdf_call.rounds) >= 1 /\ is_int(kdf_call.keylen)) =>
              /\ Small(kdf_call.keylen) < 0 => kdf_call.exc = "ValueError"
              /\ Small(kdf_call.keylen) > KdfInfo.digest_size => kdf_call.exc = "ValueError"
              /\ Small(kdf_call.keylen) \in 0..KdfInfo.digest_size
                    => /\ kdf_call.exc = "none"
                       /\ Len(kdf_call.key) = Small(kdf_call.keylen)
        /\ (Small(kdf_call.rounds) >= 1 /\ kdf_call.keylen = NoneArg) =>
              /\ kdf_call.exc = "none"
              /\ Len(kdf_call.key) = KdfInfo.digest_size

\* C15: pbkdf1 with md5 and keylen 17 raised ValueError
C15_Witness ==
    /\ Derived("pbkdf1")
    /\ KdfInfo.name = s_md5
    /\ kdf_call.rounds = IntArg(1)
    /\ kdf_call.keylen = IntArg(17)
    /\ kdf_call.status = "raised"
    /\ kdf_call.exc = "ValueError"

\* the digest applied n times to block
RECURSIVE Iterated(_, _, _)
Iterated(const, block, n) ==
    IF n = 0 THEN block ELSE hash_digest(const, Iterated(const, block, n - 1))

\* the key length the call asked for: keylen, or digest_size for None
AskedLen == IF kdf_call.keylen = NoneArg THEN KdfInfo.digest_size ELSE Small(kdf_call.keylen)

\* C16: for valid inputs pbkdf1 returns the first keylen octets of the
\* digest applied rounds times in succession to secret + salt; the digest
\* primitive ran exactly rounds times, the key has exactly keylen octets,
\* and whatever backends the build has, none was probed or called.
C16_Pbkdf1Result ==
    (Derived("pbkdf1") /\ kdf_call.status = "returned") =>
        /\ kdf_call.key
              = SubSeq(Iterated(KdfInfo.const, kdf_call.secret \o kdf_call.salt,
                                Small(kdf_call.rounds)),
                       1, AskedLen)
        /\ Len(kdf_call.key) = AskedLen
        /\ kdf_call.digests = Small(kdf_call.rounds)
        /\ kdf_call.log = << >>
        /\ kdf_call.memo = << >>
        /\ kdf_call.backend = "none"

\* C16: pbkdf1 returned 15 octets after two rounds of md5 in a build that
\* has both backends, and 15 octets are fewer than the digest has
C16_Witness ==
    /\ Derived("pbkdf1")
    /\ kdf_call.status = "returned"
    /\ KdfInfo.name = s_md5
    /\ kdf_call.env.fast /\ kdf_call.env.stdlib
    /\ s_md5 \in kdf_call.env.fast_ok
    /\ kdf_call.rounds = IntArg(2)
    /\ kdf_call.keylen = IntArg(15)
    /\ Len(kdf_call.key) = 15
    /\ kdf_call.digests = 2
    /\ kdf_call.key # SubSeq(hash_digest(KdfInfo.const, kdf_call.secret \o kdf_call.salt), 1, 15)

\* C16: pbkdf1 returned the empty key for keylen = 0
C16_WitnessEmpty ==
    /\ Derived("pbkdf1")
    /\ kdf_call.status = "returned"
    /\ kdf_call.keylen = IntArg(0)
    /\ kdf_call.key = << >>
    /\ kdf_call.digests = 1

\* keylen > digest_size * MAX_UINT32 for the call's explicit int keylen
TooLong ==
    /\ ~kdf_call.keylen.neg
    /\ big_gt(kdf_call.keylen.mag, big_mul(MAX_UINT32, KdfInfo.digest_size))

\* C17: pbkdf2_hmac checks rounds >= 1, then keylen >= 1, then the block
\* count, and raises for the first check that fails: with rounds < 1 the
\* rounds error whatever keylen is (no int, < 1, too long); with
\* rounds >= 1 and keylen < 1 the keylen error; and a call with keylen < 1
\* never raises OverflowError.
C17_ChecksInOrder ==
    Derived("pbkdf2_hmac") =>
        /\ (is_int(kdf_call.rounds) /\ Small(kdf_call.rounds) < 1) =>
              /\ kdf_call.exc = "ValueError"
              /\ kdf_call.msg = "rounds must be at least 1"
        /\ (is_int(kdf_call.rounds) /\ Small(kdf_call.rounds) >= 1
                /\ is_int(kdf_call.keylen) /\ Small(kdf_call.keylen) < 1) =>
              /\ kdf_call.exc = "ValueError"
              /\ kdf_call.msg = "keylen must be at least 1"
        /\ (is_int(kdf_call.rounds) /\ Small(kdf_call.rounds) >= 1
                /\ is_int(kdf_call.keylen) /\ TooLong) =>
              kdf_call.exc = "OverflowError"
        /\ (is_int(kdf_call.keylen) /\ Small(kdf_call.keylen) < 1) =>
              kdf_call.exc # "OverflowError"

\* C17: rounds = 0 with a keylen beyond the block-count limit raised the
\* rounds error
C17_Witness ==
    /\ Derived("pbkdf2_hmac")
    /\ kdf_call.rounds = IntArg(0)
    /\ is_int(kdf_call.keylen)
    /\ TooLong
    /\ kdf_call.exc = "ValueError"
    /\ kdf_call.msg = "rounds must be at least 1"

\* C17: rounds = 0 with keylen = 0 raised the rounds error
C17_WitnessBoth ==
    /\ Derived("pbkdf2_hmac")
    /\ kdf_call.rounds = IntArg(0)
    /\ kdf_call.keylen = IntArg(0)
    /\ kdf_call.msg = "rounds must be at least 1"

\* the call passed the checks of rounds and keylen
Validated ==
    /\ Derived("pbkdf2_hmac")
    /\ is_int(kdf_call.rounds) /\ Small(kdf_call.rounds) >= 1
    /\ \/ kdf_call.keylen = NoneArg
       \/ is_int(kdf_call.keylen) /\ Small(kdf_call.keylen) >= 1

\* the key length after ``if keylen is None: keylen = digest_size``
KeylenUsed ==
    IF kdf_call.keylen = NoneArg THEN big(KdfInfo.digest_size) ELSE kdf_call.keylen.mag

\* x <= y
big_le(x, y) == ~big_gt(x, y)

\* C18: block_count is the smallest integer with
\* keylen <= block_count * digest_size; the call raises OverflowError
\* exactly when block_count > 2^32 - 1, that is exactly when
\* keylen > digest_size * (2^32 - 1), in every build, whichever backend
\* would run it.
C18_BlockCountLimit ==
    Validated =>
        /\ big_le(KeylenUsed, big_mul(kdf_call.block_count, KdfInfo.digest_size))
        /\ big_gt(KeylenUsed,
                  big_mul(big_sub(kdf_call.block_count, 1), KdfInfo.digest_size))
        /\ kdf_call.exc = "OverflowError"
              <=> big_gt(kdf_call.block_count, << 65535, 65535, 0 >>)
        /\ kdf_call.exc = "OverflowError"
              <=> big_gt(KeylenUsed, big_mul(<< 65535, 65535, 0 >>, KdfInfo.digest_size))

\* C18: keylen = digest_size * (2^32 - 1) was accepted with
\* block_count = 2^32 - 1, in a build without backends
C18_Witness ==
    /\ Validated
    /\ KeylenUsed = big_mul(<< 65535, 65535, 0 >>, KdfInfo.digest_size)
    /\ kdf_call.block_count = << 65535, 65535, 0 >>
    /\ kdf_call.exc = "none"
    /\ kdf_call.backend = "builtin"
    /\ ~kdf_call.env.fast /\ ~kdf_call.env.stdlib

\* C18: keylen = digest_size * (2^32 - 1) + 1 raised OverflowError in a
\* build whose fastpbkdf2 supports the digest
C18_WitnessTooLong ==
    /\ Validated
    /\ KeylenUsed = big_add(big_mul(<< 65535, 65535, 0 >>, KdfInfo.digest_size), 1)
    /\ kdf_call.exc = "OverflowError"
    /\ kdf_call.env.fast
    /\ KdfInfo.name \in kdf_call.env.fast_ok
    /\ kdf_call.log = << >>

\* C18: keylen = digest_size * (2^32 - 1) was handed to fastpbkdf2
C18_WitnessDelegated ==
    /\ Validated
    /\ KeylenUsed = big_mul(<< 65535, 65535, 0 >>, KdfInfo.digest_size)
    /\ kdf_call.status = "returned"
    /\ kdf_call.backend = "fastpbkdf2"

\* the call raised at one of the checks of lines 650-673
FailedValidation ==
    /\ kdf_call.fn = "pbkdf2_hmac"
    /\ kdf_call.status = "raised"
    /\ kdf_call.msg \in { "rounds", "rounds must be at least 1", "keylen",
                          "keylen must be at least 1", "keylen too long for digest" }

\* the calls made to backend functions
Logged == { kdf_call.log[i] : i \in DOMAIN kdf_call.log }

\* C19: in every pbkdf2_hmac call all validation is over before a backend
\* is probed or called: a call that fails validation (or whose digest
\* does not resolve) calls no backend function and reads no probe, and
\* every delegated call passes rounds >= 1, keylen >= 1 and a keylen
\* whose block count is at most 2^32 - 1.
C19_ValidationBeforeBackends ==
    kdf_call.fn = "pbkdf2_hmac" =>
        /\ (FailedValidation \/ call.exc # "none") =>
              /\ kdf_call.log = << >>
              /\ kdf_call.memo = << >>
        /\ kdf_call.log # << >> => (Validated /\ kdf_call.exc # "OverflowError")
        /\ \A e \in Logged :
              /\ e.rounds >= 1
              /\ ~e.probe =>
                    /\ big_gt(e.keylen, big(0))
                    /\ big_le(big_floordiv(big_add(e.keylen, KdfInfo.digest_size - 1),
                                           KdfInfo.digest_size),
                              << 65535, 65535, 0 >>)

\* C19: a call with keylen = 0 raised in a build where both backends
\* support the digest, and no backend function was called
C19_Witness ==
    /\ FailedValidation
    /\ call.exc = "none"
    /\ kdf_call.keylen = IntArg(0)
    /\ kdf_call.msg = "keylen must be at least 1"
    /\ kdf_call.env.fast /\ KdfInfo.name \in kdf_call.env.fast_ok
    /\ kdf_call.env.stdlib /\ KdfInfo.name \in kdf_call.env.stdlib_ok
    /\ kdf_call.log = << >>

\* C19: a call was delegated with the largest key length allowed
C19_WitnessDelegated ==
    /\ Validated
    /\ kdf_call.status = "returned"
    /\ Len(kdf_call.log) = 2
    /\ kdf_call.log[1].probe
    /\ ~kdf_call.log[2].probe
    /\ kdf_call.log[2].keylen = big_mul(<< 65535, 65535, 0 >>, KdfInfo.digest_size)

\* the call passed every check of lines 650-673
Passed == Validated /\ kdf_call.exc # "OverflowError"

\* the backend is compiled in and supports the descriptor's name
FastSupports == kdf_call.env.fast /\ KdfInfo.name \in kdf_call.env.fast_ok

StdlibSupports == kdf_call.env.stdlib /\ KdfInfo.name \in kdf_call.env.stdlib_ok

\* the backend functions called, in order
LogFns == [ i \in DOMAIN kdf_call.log |-> kdf_call.log[i].fn ]

\* fn(canonical name, secret, salt, rounds, keylen) and what it returned
Delegation(fn) ==
    [ fn |-> fn, name |-> Canonical(KdfInfo.name), secret |-> kdf_call.secret,
      salt |-> kdf_call.salt, rounds |-> Small(kdf_call.rounds), keylen |-> KeylenUsed,
      probe |-> FALSE ]

\* C20: for a validated call the backend is decided by the build and by
\* which backends support the descriptor: fastpbkdf2 when it supports it,
\* else hashlib when that supports it, else the builtin path.  A delegated
\* call passes (canonical name, secret, salt, rounds, keylen), what it
\* returns is returned as it is, and when fastpbkdf2 supports the
\* descriptor hashlib is neither probed nor called.
C20_BackendPriority ==
    Passed =>
        /\ FastSupports =>
              /\ kdf_call.backend = "fastpbkdf2"
              /\ kdf_call.status = "returned"
              /\ kdf_call.delegated = Delegation("fastpbkdf2")
              /\ kdf_call.log[Len(kdf_call.log)] = kdf_call.delegated
              /\ LogFns = << "fastpbkdf2", "fastpbkdf2" >>
              /\ memo_of(kdf_call.memo, call.info).stdlib = "unset"
        /\ (~FastSupports /\ StdlibSupports) =>
              /\ kdf_call.backend = "hashlib"
              /\ kdf_call.status = "returned"
              /\ kdf_call.delegated = Delegation("hashlib")
              /\ kdf_call.log[Len(kdf_call.log)] = kdf_call.delegated
        /\ (~FastSupports /\ ~StdlibSupports) =>
              /\ kdf_call.backend = "builtin"
              /\ kdf_call.delegated = NoTerm
              /\ \A i \in DOMAIN kdf_call.log : kdf_call.log[i].probe

\* C20: both backends support md5 and fastpbkdf2 ran, after its probe
C20_Witness ==
    /\ Passed
    /\ FastSupports /\ StdlibSupports
    /\ kdf_call.backend = "fastpbkdf2"
    /\ Len(kdf_call.log) = 2
    /\ kdf_call.log[1] = backend_probe("fastpbkdf2", s_md5)
    /\ kdf_call.delegated.name = s_md5
    /\ kdf_call.delegated.keylen = big(17)

\* C20: the digest was given as "SHA-1", fastpbkdf2 is there but supports
\* md5 only, and hashlib was called with the name sha1
C20_WitnessHashlib ==
    /\ Passed
    /\ kdf_call.digest = Str(<< "S","H","A","-","1" >>)
    /\ kdf_call.env.fast /\ ~FastSupports
    /\ kdf_call.backend = "hashlib"
    /\ kdf_call.delegated.name = s_sha1
    /\ LogFns = << "fastpbkdf2", "hashlib", "hashlib" >>

\* C20: no backend supports the digest and the builtin path returned a key
\* of 17 octets, after both probes failed
C20_WitnessBuiltin ==
    /\ Passed
    /\ kdf_call.env.fast /\ kdf_call.env.stdlib
    /\ kdf_call.backend = "builtin"
    /\ kdf_call.status = "returned"
    /\ Len(kdf_call.key) = 17
    /\ LogFns = << "fastpbkdf2", "hashlib" >>

(***************************************************************************)
(* The memoized probes (SpecProbe).                                        *)
(***************************************************************************)
\* the value instance id holds for the property, "unset" before a read
Memoized(kd, prop, id) ==
    IF prop = "fast" THEN memo_of(kd.memo, id).fast ELSE memo_of(kd.memo, id).stdlib

\* how often the property's body ran on instance id
TimesRun(kd, prop, id) ==
    Cardinality({ i \in DOMAIN kd.probed : kd.probed[i] = [ prop |-> prop, info |-> id ] })

BackendOf(prop) == IF prop = "fast" THEN "fastpbkdf2" ELSE "hashlib"

CompiledIn(kd, prop) == IF prop = "fast" THEN kd.env.fast ELSE kd.env.stdlib

\* the probe calls of the backend made so far
ProbeCalls(kd, prop) ==
    { i \in DOMAIN kd.log : kd.log[i].probe /\ kd.log[i].fn = BackendOf(prop) }

\* bodies of the property run so far, on any instance
BodiesRun(kd, prop) == { i \in DOMAIN kd.probed : kd.probed[i].prop = prop }

\* one step of the process, for one property of one instance
ProbeStep(old, new, prop, id) ==
    /\ Memoized(old, prop, id) # "unset" =>
          /\ Memoized(new, prop, id) = Memoized(old, prop, id)
          /\ TimesRun(new, prop, id) = TimesRun(old, prop, id)
    /\ TimesRun(new, prop, id) <= 1
    /\ (Memoized(new, prop, id) # "unset") = (TimesRun(new, prop, id) = 1)
    /\ Memoized(new, prop, id) = "None" => ~CompiledIn(new, prop)
    /\ ~CompiledIn(new, prop) =>
          /\ Memoized(new, prop, id) \in { "unset", "None" }
          /\ \A i \in DOMAIN new.log : new.log[i].fn # BackendOf(prop)
    /\ CompiledIn(new, prop) =>
          Cardinality(ProbeCalls(new, prop)) = Cardinality(BodiesRun(new, prop))

\* C21: over any sequence of pbkdf2_hmac calls (and cache clears), the
\* body of each probe property runs at most once on each HashInfo instance;
\* a property that holds a value keeps it and is not run again; in a build
\* without the backend the value is None and the backend function is never
\* called, and in a build with it every run of the body is one probe call.
C21_ProbedOncePerInstance ==
    [][ \A id \in DOMAIN heap', prop \in { "fast", "stdlib" } :
            ProbeStep(kdf_call, kdf_call', prop, id) ]_vars

\* C21: three calls by the name md5 with the cache cleared after the
\* first: two instances, each probed once by fastpbkdf2, which ran thrice
C21_Witness ==
    /\ kdf_call.calls = 3
    /\ Len(heap) = 2
    /\ heap[1].name = s_md5 /\ heap[2].name = s_md5
    /\ kdf_call.env.fast
    /\ Memoized(kdf_call, "fast", 1) = "True"
    /\ Memoized(kdf_call, "fast", 2) = "True"
    /\ LogFns = << "fastpbkdf2", "fastpbkdf2", "fastpbkdf2", "fastpbkdf2", "fastpbkdf2" >>
    /\ [ i \in DOMAIN kdf_call.log |-> kdf_call.log[i].probe ]
          = << TRUE, FALSE, TRUE, FALSE, FALSE >>

\* C21: in a build without hashlib's pbkdf2_hmac two calls on one instance
\* left the property None, and no backend function was called
C21_WitnessNotCompiled ==
    /\ kdf_call.calls = 2
    /\ Len(heap) = 1
    /\ ~kdf_call.env.stdlib /\ ~kdf_call.env.fast
    /\ Memoized(kdf_call, "stdlib", 1) = "None"
    /\ Memoized(kdf_call, "fast", 1) = "None"
    /\ kdf_call.log = << >>
    /\ kdf_call.backend = "builtin"

(***************************************************************************)
(* The builtin PBKDF2 loop (SpecLoop).                                     *)
(***************************************************************************)
\* HMAC (RFC 2104) of msg under the call's secret
Prf(msg) ==
    hash_digest(KdfInfo.const,
                masked(key_block(KdfInfo, kdf_call.secret), 92)
                    \o hash_digest(KdfInfo.const,
                                   masked(key_block(KdfInfo, kdf_call.secret), 54) \o msg))

\* the 4-octet big-endian encoding of a block index below 256
Be32(i) == << 0, 0, 0, i >>

\* U_j xor ... xor U_n, octet by octet, for u = U_j and left = n - j + 1
RECURSIVE XorFrom(_, _)
XorFrom(u, left) ==
    IF left <= 1 THEN u
    ELSE xor_bytes(u, XorFrom(Prf(u), left - 1))

\* T_i
T(i) == XorFrom(Prf(kdf_call.salt \o Be32(i)), Small(kdf_call.rounds))

\* T_i .. T_n joined
RECURSIVE Ts(_, _)
Ts(i, n) == IF i > n THEN << >> ELSE T(i) \o Ts(i + 1, n)

\* ceil(keylen / digest_size)
BlockCount == (AskedLen + KdfInfo.digest_size - 1) \div KdfInfo.digest_size

\* the call went down the builtin path and returned
BuiltinReturned ==
    /\ Derived("pbkdf2_hmac")
    /\ kdf_call.backend = "builtin"
    /\ kdf_call.status = "returned"

\* C22: on the builtin path pbkdf2_hmac returns the first keylen octets of
\* T_1 .. T_block_count joined, where U_1 = mac(salt + be32(i)),
\* U_j+1 = mac(U_j) and T_i = U_1 xor .. xor U_rounds; the key has exactly
\* keylen octets, and the MAC is called rounds times for each block.
C22_BuiltinResult ==
    BuiltinReturned =>
        /\ kdf_call.key = SubSeq(Ts(1, BlockCount), 1, AskedLen)
        /\ Len(kdf_call.key) = AskedLen
        /\ Len(kdf_call.blocks) = BlockCount
        /\ kdf_call.macs = Small(kdf_call.rounds) * BlockCount

\* C22: seventeen rounds and a key of 17 octets from md5: two blocks, the
\* second cut to one octet, 34 calls of the MAC
C22_Witness ==
    /\ BuiltinReturned
    /\ KdfInfo.name = s_md5
    /\ kdf_call.rounds = IntArg(17)
    /\ kdf_call.keylen = IntArg(17)
    /\ kdf_call.salt = << 2 >>
    /\ Len(kdf_call.key) = 17
    /\ kdf_call.macs = 34

\* C22: one round: a single call of the MAC gave the block
C22_WitnessOneRound ==
    /\ BuiltinReturned
    /\ kdf_call.rounds = IntArg(1)
    /\ kdf_call.keylen = NoneArg
    /\ kdf_call.macs = 1
    /\ kdf_call.key = Prf(kdf_call.salt \o Be32(1))

\* the lane layout the helper for the call's digest size was compiled with
Layout == kdf_call.looper_cache[KdfInfo.digest_size]

Unpacking == kdf_call.platform.looper = "unpack"

\* C23: every block the accumulator returned is the octet-by-octet XOR of
\* U_1 .. U_rounds computed from the same first digest with the same MAC
\* and has digest_size octets; the unpack accumulator's lanes are 64-bit
\* lanes and at most one 32-bit lane on a 64-bit machine, 32-bit lanes on a
\* 32-bit machine, and cover exactly digest_size octets.
C23_LanesEqualNaiveXor ==
    BuiltinReturned =>
        /\ \A n \in DOMAIN kdf_call.blocks :
              /\ kdf_call.blocks[n].out
                    = XorFrom(kdf_call.blocks[n].first, Small(kdf_call.rounds))
              /\ Len(kdf_call.blocks[n].out) = KdfInfo.digest_size
        /\ Unpacking =>
              /\ KdfInfo.digest_size \in DOMAIN kdf_call.looper_cache
              /\ 8 * Layout.q + 4 * Layout.i = KdfInfo.digest_size
              /\ kdf_call.platform.bits = 64 => Layout.i <= 1
              /\ kdf_call.platform.bits = 32 => Layout.q = 0

\* C23: seventeen rounds of sha1 on a big-endian 64-bit machine: two
\* 64-bit lanes and one 32-bit lane
C23_Witness ==
    /\ BuiltinReturned
    /\ Unpacking
    /\ kdf_call.platform.bits = 64
    /\ kdf_call.platform.order = "big"
    /\ KdfInfo.name = s_sha1
    /\ kdf_call.rounds = IntArg(17)
    /\ Layout = [ q |-> 2, i |-> 1 ]
    /\ Len(kdf_call.blocks) = 1
    /\ kdf_call.blocks[1].out # kdf_call.blocks[1].first

\* C23: sha224 on a 32-bit machine: seven 32-bit lanes, two rounds
C23_WitnessNarrow ==
    /\ BuiltinReturned
    /\ Unpacking
    /\ kdf_call.platform.bits = 32
    /\ KdfInfo.digest_size = 28
    /\ kdf_call.rounds = IntArg(2)
    /\ Layout = [ q |-> 0, i |-> 7 ]

(***************************************************************************)
(* Unsupported digest sizes (SpecLayout).                                  *)
(***************************************************************************)
\* a call on the builtin path, followed to its end, with a digest size
\* that is not a multiple of 4
OddSizeCall ==
    /\ Derived("pbkdf2_hmac")
    /\ kdf_call.backend = "builtin"
    /\ kdf_call.status # "running"
    /\ KdfInfo.digest_size % 4 # 0

\* the call raised NotImplementedError and gave no key
Unsupported ==
    /\ kdf_call.status = "raised"
    /\ kdf_call.exc = "NotImplementedError"
    /\ kdf_call.key = << >>
    /\ kdf_call.macs = 0

\* C24 as stated: on the builtin path a digest size that is not a multiple
\* of 4 fails with NotImplementedError, no key is returned, and the size is
\* not in the helper cache.
C24_OddSizeFails ==
    OddSizeCall =>
        /\ Unsupported
        /\ KdfInfo.digest_size \notin DOMAIN kdf_call.looper_cache

\* C24, amended: so it is with the unpack accumulator, where no size that
\* is not a multiple of 4 is ever in the helper cache; with the from-bytes
\* accumulator the call returns a key of keylen octets and there is no
\* helper cache.
C24_OddSizeFailsWhenUnpacking ==
    /\ \A k \in DOMAIN kdf_call.looper_cache : k % 4 = 0
    /\ ~Unpacking => kdf_call.looper_cache = << >>
    /\ OddSizeCall =>
          IF Unpacking THEN Unsupported
          ELSE /\ kdf_call.status = "returned"
               /\ Len(kdf_call.key) = AskedLen

\* C24: after a call with md5 the helper for 16 octets is cached; a call
\* with the digest of 10 octets then failed, and so did the next
C24_Witness ==
    /\ OddSizeCall
    /\ Unpacking
    /\ Unsupported
    /\ kdf_call.calls = 3
    /\ Len(heap) = 2
    /\ heap[1].name = s_md5
    /\ DOMAIN kdf_call.looper_cache = { 16 }

\* C24: with the from-bytes accumulator the digest of 10 octets gave a key
C24_WitnessFromBytes ==
    /\ OddSizeCall
    /\ ~Unpacking
    /\ kdf_call.status = "returned"
    /\ Len(kdf_call.key) = 10

(***************************************************************************)
(* The cache over time (Spec, SpecThreads).                                *)
(***************************************************************************)
\* every key of the cache is still there and maps to the same instance,
\* which is as it was
KeysKept ==
    \A k \in DOMAIN cache :
        /\ k \in DOMAIN cache'
        /\ cache'[k] = cache[k]
        /\ heap'[cache'[k]] = heap[cache[k]]

\* C25: the cache is empty until the first instance is created; no step
\* of a lookup_hash call removes a key or changes the instance a key maps
\* to; clear_cache empties the cache.
C25_CacheGrowsMonotonically ==
    [][ /\ heap = << >> => cache = << >>
        /\ IF call'.op = "clear_cache" THEN cache' = << >> ELSE KeysKept ]_vars

(***************************************************************************)
(* The handler registry (SpecRegistry).                                    *)
(***************************************************************************)
\* the two tables are as they were
TablesKept(old, new) ==
    /\ new.handlers = old.handlers
    /\ new.locations = old.locations

\* a call of register_crypt_handler(handler, force) with a handler whose
\* name is taken: other is the handler registered under it
RegisterStep(old, new, handler, other) ==
    (/\ new.op = "register_crypt_handler"
     /\ Objects[handler].crypt_handler
     /\ truthy(handler)
     /\ other # 0)
        => IF other = handler
           THEN new.exc = "none" /\ TablesKept(old, new)
           ELSE IF new.flag
           THEN /\ new.exc = "none"
                /\ new.handlers = dict_set(old.handlers, Objects[handler].name, handler)
                /\ new.locations = old.locations
           ELSE new.exc = "KeyError" /\ TablesKept(old, new)

\* C26: register_crypt_handler(handler) for a handler under whose name a
\* different handler is registered raises KeyError and leaves both tables
\* as they were unless force is set, replaces the registered handler (and
\* nothing else) when force is set, and changes nothing when the handler
\* registered under the name is the same object.
C26_RegisterTakenName ==
    [][ RegisterStep(registry, registry', registry'.obj,
                     dict_get(registry.handlers, Objects[registry'.obj].name)) ]_vars

\* the application's md5_crypt was refused: passlib's is registered
C26_Witness ==
    /\ registry.op = "register_crypt_handler"
    /\ registry.obj = 2
    /\ ~registry.flag
    /\ registry.exc = "KeyError"
    /\ dict_get(registry.handlers, s_md5_crypt) = 1

\* the application's md5_crypt replaced the one loaded from passlib's module
C26_WitnessForced ==
    /\ registry.op = "register_crypt_handler"
    /\ registry.obj = 2
    /\ registry.flag
    /\ registry.exc = "none"
    /\ p_md5_crypt \in registry.sys_modules
    /\ dict_get(registry.handlers, s_md5_crypt) = 2

\* name.replace("-", "_").lower(), the key get_crypt_handler settles on
Normalized(name) == str_lower(replace_hyphens(name))

\* a call of get_crypt_handler(name) returned a handler it loaded from the
\* name's location: the handler is in the table under alt, and is called alt
LoadStep(new, alt) ==
    (/\ new.op = "get_crypt_handler"
     /\ new.imports > 0
     /\ new.exc = "none")
        => /\ new.value.kind = "obj"
           /\ dict_get(new.handlers, alt) = new.value.id
           /\ Objects[new.value.id].name = alt

\* a call of get_crypt_handler(name) while a handler is in the table under
\* alt: the call returns that object, imports nothing, changes nothing
LoadedStep(old, new, alt) ==
    (/\ new.op = "get_crypt_handler"
     /\ ~startswith(alt, << "_" >>)
     /\ alt \in DOMAIN old.handlers)
        => /\ new.exc = "none"
           /\ new.value = Obj(old.handlers[alt])
           /\ new.imports = 0
           /\ TablesKept(old, new)
           /\ new.sys_modules = old.sys_modules

\* only unloading a name and registering with force take a handler out of
\* the table or put another in its place
KeepStep(old, new) ==
    \A n \in DOMAIN old.handlers :
        (~startswith(n, << "_" >>) /\ dict_get(new.handlers, n) # old.handlers[n])
            => \/ new.op = "_unload_handler_name" /\ new.name = n
               \/ new.op = "register_crypt_handler" /\ new.flag /\ Objects[new.obj].name = n

\* C27: a handler that get_crypt_handler(name) returns after loading it from
\* the registered location is in the table of loaded handlers under the
\* normalised name, its name attribute is that name, and as long as the
\* name is neither unloaded nor overridden with force every later
\* get_crypt_handler call for the name returns the same object without
\* importing.
C27_LazyLoadRegisters ==
    [][ /\ LoadStep(registry', Normalized(registry'.name))
        /\ LoadedStep(registry, registry', Normalized(registry'.name))
        /\ KeepStep(registry, registry') ]_vars

\* md5_crypt was loaded from passlib's module earlier; a call by another
\* spelling returns it without importing
C27_Witness ==
    /\ registry.op = "get_crypt_handler"
    /\ registry.name = s_MD5_Crypt
    /\ registry.imports = 0
    /\ registry.value = Obj(1)
    /\ p_md5_crypt \in registry.sys_modules

\* the call that loads: by the module's attribute, and by the registration
\* the module's body makes
C27_WitnessLoading ==
    /\ registry.op = "get_crypt_handler"
    /\ registry.name = s_MD5_Crypt
    /\ registry.imports = 1
    /\ registry.value = Obj(1)

C27_WitnessLoadingOnImport ==
    /\ registry.op = "get_crypt_handler"
    /\ registry.name = s_myhash
    /\ registry.imports = 1
    /\ registry.value = Obj(3)
    /\ path_get(registry.locations, s_myhash) = p_auto

\* a call of get_crypt_handler(name, default) while alt is a key of neither
\* table
UnknownStep(old, new, alt) ==
    (/\ new.op = "get_crypt_handler"
     /\ alt \notin DOMAIN old.handlers
     /\ alt \notin DOMAIN old.locations)
        => /\ IF new.default = _UNSET
              THEN new.exc = "KeyError"
              ELSE new.exc = "none" /\ new.value = new.default
           /\ new.imports = 0
           /\ TablesKept(old, new)

\* C28: get_crypt_handler(name) for a name that, lower-cased and with "-"
\* replaced by "_", is neither loaded nor has a location raises KeyError
\* without a default and returns the default when there is one, None
\* included; the table of loaded handlers and the table of locations are as
\* they were.
C28_UnknownName ==
    [][ UnknownStep(registry, registry', Normalized(registry'.name)) ]_vars

\* None was returned as the default, with a handler loaded under another name
C28_Witness ==
    /\ registry.op = "get_crypt_handler"
    /\ registry.name = s_xyz
    /\ registry.default = None
    /\ registry.exc = "none"
    /\ registry.value = None
    /\ s_md5_crypt \in DOMAIN registry.handlers

\* KeyError without a default, for a name unknown once it is normalised
C28_WitnessKeyError ==
    /\ registry.op = "get_crypt_handler"
    /\ registry.name = s_MD5_Crypt
    /\ registry.default = _UNSET
    /\ registry.exc = "KeyError"

(***************************************************************************)
(* Unknown names and failed calls (SpecUnknown).                           *)
(***************************************************************************)
\* no key of the cache maps to a record without constructor
NoUnknownCached(c, h) == \A key \in DOMAIN c : h[c[key]].const # NoConst

\* the call was a tolerant one by name that returned a record without
\* constructor
ReturnedUnknown(cl, h) ==
    /\ cl.op = "lookup_hash"
    /\ cl.digest.kind = "str"
    /\ cl.return_unknown
    /\ cl.exc = "none"
    /\ h[cl.info].const = NoConst

\* C29: whatever strict and tolerant calls of lookup_hash were made, no key
\* of the cache maps to a HashInfo without constructor; a tolerant call for
\* an unknown name, in hashlib's spelling or another, leaves the cache as it
\* was, and a strict call for the same name after it raises
\* UnknownHashError.
C29_UnknownNeverCached ==
    [][ /\ NoUnknownCached(cache, heap)
        /\ NoUnknownCached(cache', heap')
        /\ ReturnedUnknown(call', heap') => cache' = cache
        /\ (/\ ReturnedUnknown(call, heap)
            /\ call'.op = "lookup_hash"
            /\ call'.digest = call.digest
            /\ ~call'.return_unknown) => call'.exc = "UnknownHashError" ]_vars

\* a strict call failed after a tolerant call for the same name, spelled
\* other than hashlib would, returned a record; the cache holds other keys
C29_Witness ==
    /\ call.op = "lookup_hash"
    /\ call.digest.kind = "str"
    /\ _get_hash_aliases(call.digest.s)[1] # call.digest.s
    /\ ~call.return_unknown
    /\ call.exc = "UnknownHashError"
    /\ cache # << >>
    /\ \E i \in DOMAIN heap : heap[i].const = NoConst

\* the tolerant call itself, with a cache that holds keys
C29_WitnessTolerant ==
    /\ ReturnedUnknown(call, heap)
    /\ cache # << >>

\* the exceptions of an unknown name, of an identifier that is neither name
\* nor constructor, and of a constructor that fails HashInfo's check
FailedCall(cl) ==
    /\ cl.op = "lookup_hash"
    /\ cl.exc \in { "UnknownHashError", "ExpectedTypeError", "RuntimeError" }

\* C30: a call of lookup_hash that raises UnknownHashError,
\* ExpectedTypeError or the RuntimeError of HashInfo's check leaves the
\* cache as it was: no key added, removed or mapped to another instance.
C30_FailedCallKeepsCache ==
    [][ FailedCall(call') => cache' = cache ]_vars

\* a constructor failed the check while the cache holds keys
C30_Witness ==
    /\ FailedCall(call)
    /\ call.exc = "RuntimeError"
    /\ cache # << >>

C30_WitnessUnknown ==
    /\ FailedCall(call)
    /\ call.exc = "UnknownHashError"
    /\ cache # << >>

C30_WitnessType ==
    /\ FailedCall(call)
    /\ call.exc = "ExpectedTypeError"
    /\ cache # << >>

(***************************************************************************)
(* What a strict call returns (SpecUnknown).                               *)
(***************************************************************************)
\* the record has its constructor and both sizes
Resolved(info) ==
    /\ info.const # NoConst
    /\ info.digest_size # NoSize
    /\ info.block_size # NoSize

\* a strict call that returned
StrictReturned(cl) ==
    /\ cl.op = "lookup_hash"
    /\ ~cl.return_unknown
    /\ cl.exc = "none"

\* C31: the HashInfo a strict call of lookup_hash returns, whatever kind of
\* identifier it was given, has a constructor, a digest_size and a
\* block_size.
C31_StrictReturnsResolved ==
    StrictReturned(call) => Resolved(heap[call.info])

\* C31 for names and constructors only: holds
C31_StrictByNameOrConstructor ==
    (StrictReturned(call) /\ call.digest.kind # "info") => Resolved(heap[call.info])

(***************************************************************************)
(* Normalising a normalised name (SpecNames).                              *)
(***************************************************************************)
\* the row's first name is normalised to itself
FixedPoint(row) == _get_hash_aliases(row[1])[1] = row[1]

\* C32: for every name, the first name of the row _get_hash_aliases returns
\* is normalised to a row with the same first name, so that lookup_hash of
\* a name calls itself at most once before it looks the constructor up.
C32_NormalisedNameIsFixed ==
    name_row # << >> => FixedPoint(name_row)

\* a stem, two hyphens and four digits: read as name and size at first, and
\* as name, revision and size once the hyphens are gone
TwoHyphensFourDigits(s) ==
    \E stem \in Stems :
        /\ Len(s) = Len(stem) + 6
        /\ SubSeq(s, 1, Len(stem) + 2) = stem \o << "-","-" >>
        /\ \A i \in (Len(stem) + 3)..Len(s) : s[i] \in Digits

\* C32 for every name but those with a second SCRAM prefix and those with
\* two hyphens before a size of four digits: holds
C32_FixedForOtherNames ==
    (/\ name_row # << >>
     /\ name_arg.s # s_scram_ \o s_scram_ \o s_md5
     /\ ~TwoHyphensFourDigits(name_arg.s))
        => FixedPoint(name_row)

(***************************************************************************)
(* The keys of the table of loaded handlers (SpecRegistry).                *)
(***************************************************************************)
\* the key is a valid handler name and maps to a handler of that name
KeyedByOwnName(handlers, key) ==
    /\ Objects[handlers[key]].crypt_handler
    /\ Objects[handlers[key]].name = key
    /\ _validate_handler_name(key)

\* C33: in every state of the registry, whatever calls of
\* register_crypt_handler, get_crypt_handler and _unload_handler_name and
\* assignments to attributes of the proxy object were made, every key of
\* the table of loaded handlers that does not start with "_" maps to a
\* handler whose name attribute is the key, and the key is a valid handler
\* name.
C33_PublicKeysAreHandlerNames ==
    \A key \in DOMAIN registry.handlers :
        ~startswith(key, << "_" >>) => KeyedByOwnName(registry.handlers, key)

\* a handler stored by assigning to proxy.md5_crypt, next to a private
\* attribute and a lazily loaded handler
C33_Witness ==
    /\ registry.op = "__setattr__"
    /\ registry.name = s_md5_crypt
    /\ registry.exc = "none"
    /\ dict_get(registry.handlers, s_md5_crypt) = 2
    /\ dict_get(registry.handlers, s__loader__) = a_loader
    /\ dict_get(registry.handlers, s_myhash) = 3

\* an assignment under another handler's name was refused
C33_WitnessRefused ==
    /\ registry.op = "__setattr__"
    /\ registry.name = s_myhash
    /\ registry.obj = 1
    /\ registry.exc = "ValueError"

(***************************************************************************)
(* Private attributes of the proxy object (SpecRegistry).                  *)
(***************************************************************************)
\* the value is an object that a key not starting with "_" maps to
RegisteredHandler(reg, value) ==
    /\ value.kind = "obj"
    /\ \E key \in DOMAIN reg.handlers :
          ~startswith(key, << "_" >>) /\ reg.handlers[key] = value.id

\* what get_crypt_handler returned is the default or a registered handler
ReturnedHandlerOrDefault(reg) ==
    (reg.op = "get_crypt_handler" /\ reg.exc = "none")
        => reg.value = reg.default \/ RegisteredHandler(reg, reg.value)

\* C34: get_crypt_handler never returns a value stored under a key of the
\* handler table that starts with "_"; for any name asked, those that start
\* with "_" only once "-" is replaced by "_" included, what it returns is a
\* registered handler or the given default.
C34_PrivateKeysNeverReturned ==
    ReturnedHandlerOrDefault(registry)

\* C34 for the names that do not start with "_" once normalised: holds
C34_ForPublicNames ==
    ~startswith(Normalized(registry.name), << "_" >>) => ReturnedHandlerOrDefault(registry)

\* C34 for the names that start with "_" as they are asked: holds
C34_ForPrivateNames ==
    startswith(registry.name, << "_" >>) => ReturnedHandlerOrDefault(registry)

====
